---- MODULE Spec2Model ----
(***************************************************************************)
(* Multi-cursor editing engine of guake's script editor                    *)
(* (src/guake/editor.py): Casing, MarkTag, Cursor, the undo actions, the   *)
(* UndoManager and the cursor manager half of TextEditorDialog.            *)
(*                                                                         *)
(* The document is a sequence of one-character strings.  A position is an  *)
(* offset 0..Len(doc).  A GtkTextMark is an offset with a gravity; the     *)
(* buffer moves it on every insertion and deletion.  Every UI event runs   *)
(* to completion (single-threaded GTK main loop), so each event is one     *)
(* action; inside it the signal handlers are composed in the order GTK     *)
(* runs them.                                                              *)
(***************************************************************************)
EXTENDS Integers, Sequences, FiniteSets, TLC

VARIABLES
    doc,                \* TextEditorDialog.doc: the buffer's characters
    insert_mark,        \* the buffer's "insert" mark (primary caret)
    selection_bound,    \* the buffer's "selection_bound" mark
    cursors,            \* TextEditorDialog.cursors: ordered Cursor objects
    matches,            \* TextEditorDialog.matches: 'multicursor_match' MarkTags
    handlers,           \* number of times the document handlers are connected
    undo_stack,         \* UndoManager.undo_stack
    redo_stack,         \* UndoManager.redo_stack
    undo_lock,          \* UndoManager.undo_lock
    current_action_group, \* UndoManager.current_action_group
    in_user_action,     \* TextEditorDialog._in_user_action
    is_modifying_programmatically, \* TextEditorDialog._is_modifying_programmatically
    user_actions,       \* TextEditorDialog._user_actions
    handled_paste,      \* TextEditorDialog._handled_paste
    clipboard,          \* TextEditorDialog.clipboard
    undo_sensitive,     \* undo_button sensitivity
    redo_sensitive,     \* redo_button sensitivity
    tie_long,           \* iteration order of the fuzzy alternatives set (per process)
    ntxn,               \* history: number of transactions recorded so far
    last,               \* history: the event that produced this state, its result,
                        \* the cursor count and redo depth it started from, and
                        \* whether it ends a run of column_select(+1) that
                        \* started without cursors
    txn,                \* history: state before / after the latest recorded transaction
    run                 \* history: progress of a "N transactions, N undos, N redos" run

vars == <<doc, insert_mark, selection_bound, cursors, matches, handlers,
          undo_stack, redo_stack, undo_lock, current_action_group,
          in_user_action, is_modifying_programmatically, user_actions,
          handled_paste, clipboard, undo_sensitive, redo_sensitive, tie_long,
          ntxn, last, txn, run>>

(***************************************************************************)
(* Bounds of the model.                                                    *)
(***************************************************************************)
MaxLen == 5          \* longest document
MaxCursors == 2      \* most secondary cursors
MaxTxn == 2          \* most recorded transactions in Spec
MaxEditCursors == 1  \* most secondary cursors in Spec
MaxMatches == 6      \* most match highlights

(***************************************************************************)
(* Text helpers.                                                           *)
(***************************************************************************)
Min(a, b) == IF a < b THEN a ELSE b
Max(a, b) == IF a > b THEN a ELSE b

NL == "\n"

\* GtkTextBuffer.get_text(start, end): the characters in [a, b).
get_text(d, a, b) == SubSeq(d, a + 1, b)

\* The buffer's default insert-text handler on the characters.
TextInsert(d, o, t) == SubSeq(d, 1, o) \o t \o SubSeq(d, o + 1, Len(d))

\* The buffer's default delete-range handler on the characters, a <= b.
TextDelete(d, a, b) == SubSeq(d, 1, a) \o SubSeq(d, b + 1, Len(d))

\* GtkTextBuffer.get_iter_at_offset: an offset below 0 or beyond the last
\* character yields the end iterator.
get_iter_at_offset(d, o) == IF o < 0 \/ o > Len(d) THEN Len(d) ELSE o

\* A mark at m after t characters were inserted at o.  A mark created with
\* left_gravity stays left of text inserted at its own offset.
MarkAfterInsert(m, left_gravity, o, n) ==
    IF m > o \/ (m = o /\ ~left_gravity) THEN m + n ELSE m

\* A mark at m after [a, b) was deleted.
MarkAfterDelete(m, a, b) ==
    IF m <= a THEN m ELSE IF m <= b THEN a ELSE m - (b - a)

(***************************************************************************)
(* The editor's state as one record, so that a handler is an operator from *)
(* state to state and an event is the composition of its handlers.         *)
(*   cursor : [id, s, e, lg, clipboard, line_offset]  (s/e: the MarkTag's  *)
(*            start/end mark offsets, lg: the start mark's left gravity,   *)
(*            line_offset -1 stands for None)                              *)
(*   match  : [s, e]                                                       *)
(*   group  : [kind, actions, primary_before, secondary_before,            *)
(*             primary_after, secondary_after]                             *)
(*   action : [type, offset, text]                                         *)
(***************************************************************************)
State ==
    [doc |-> doc, insert |-> insert_mark, selection_bound |-> selection_bound,
     cursors |-> cursors, matches |-> matches, handlers |-> handlers,
     undo_stack |-> undo_stack, redo_stack |-> redo_stack,
     undo_lock |-> undo_lock, current_action_group |-> current_action_group,
     in_user_action |-> in_user_action,
     is_modifying_programmatically |-> is_modifying_programmatically,
     user_actions |-> user_actions, handled_paste |-> handled_paste,
     clipboard |-> clipboard,
     undo_sensitive |-> undo_sensitive, redo_sensitive |-> redo_sensitive,
     tie_long |-> tie_long]

\* UndoManager.current_action_group = None
NoGroup ==
    [kind |-> "none", actions |-> <<>>,
     primary_before |-> <<>>, secondary_before |-> <<>>,
     primary_after |-> <<>>, secondary_after |-> <<>>]

\* CompositeAction()
CompositeAction == [NoGroup EXCEPT !.kind = "composite"]

\* The (start, end) offsets of every live cursor, keyed by cursor object.
CursorOffsets(st) ==
    [i \in DOMAIN st.cursors |->
        [id |-> st.cursors[i].id, s |-> st.cursors[i].s, e |-> st.cursors[i].e]]

\* MultiCursorUndoAction(dialog): saves the pre-action offsets.
MultiCursorUndoAction(st) ==
    [NoGroup EXCEPT !.kind = "multi",
                    !.primary_before = <<st.insert, st.selection_bound>>,
                    !.secondary_before = CursorOffsets(st)]

\* MultiCursorUndoAction.save_post_state
save_post_state(st, g) ==
    [g EXCEPT !.primary_after = <<st.insert, st.selection_bound>>,
              !.secondary_after = CursorOffsets(st)]

\* TextEditorDialog.order_iters
order_iters(a, b) == IF a > b THEN <<b, a>> ELSE <<a, b>>

\* TextEditorDialog.get_selection_iters, ordered
Selection(st) == order_iters(st.insert, st.selection_bound)

(***************************************************************************)
(* UndoManager's signal handlers.                                          *)
(***************************************************************************)
\* UndoManager._on_begin_user_action
UndoManager_on_begin_user_action(st) ==
    IF st.undo_lock THEN st
    ELSE [st EXCEPT !.current_action_group =
            IF st.cursors # <<>> THEN MultiCursorUndoAction(st)
            ELSE CompositeAction]

\* TextEditorDialog.update_undo_redo_sensitivity
update_undo_redo_sensitivity(st) ==
    [st EXCEPT !.undo_sensitive = Len(st.undo_stack) > 0,
               !.redo_sensitive = Len(st.redo_stack) > 0]

\* Faulty variant of RedoAfterPush: the redo stack is kept.
RedoKept(redo) == redo

\* What _on_end_user_action leaves on the redo stack when it pushes a group:
\* self.redo_stack.clear()
RedoAfterPush(redo) == <<>>

\* Faulty variant of _on_end_user_action: the open group is pushed, and the
\* redo stack cleared, also when the group has no actions.
UndoManager_on_end_user_action_pushes_empty(st) ==
    IF st.undo_lock THEN st
    ELSE LET g == st.current_action_group
             pushed ==
                IF g.kind # "none"
                THEN update_undo_redo_sensitivity(
                        [st EXCEPT !.undo_stack =
                                Append(@, IF g.kind = "multi"
                                          THEN save_post_state(st, g) ELSE g),
                                   !.redo_stack = RedoAfterPush(@)])
                ELSE st
         IN [pushed EXCEPT !.current_action_group = NoGroup]

\* UndoManager._on_end_user_action
UndoManager_on_end_user_action(st) ==
    IF st.undo_lock THEN st
    ELSE
        LET g == st.current_action_group
            pushed ==
                IF g.kind # "none" /\ g.actions # <<>>
                THEN update_undo_redo_sensitivity(
                        [st EXCEPT !.undo_stack =
                                Append(@, IF g.kind = "multi"
                                          THEN save_post_state(st, g) ELSE g),
                                   !.redo_stack = RedoAfterPush(@)])
                ELSE st
        IN [pushed EXCEPT !.current_action_group = NoGroup]

\* UndoManager._on_insert_text
UndoManager_on_insert_text(st, o, t) ==
    IF st.undo_lock \/ st.current_action_group.kind = "none" THEN st
    ELSE [st EXCEPT !.current_action_group.actions =
            Append(@, [type |-> "insert", offset |-> o, text |-> t])]

\* UndoManager._on_delete_range
UndoManager_on_delete_range(st, a, b) ==
    IF st.undo_lock \/ st.current_action_group.kind = "none" THEN st
    ELSE [st EXCEPT !.current_action_group.actions =
            Append(@, [type |-> "delete", offset |-> a,
                       text |-> get_text(st.doc, a, b)])]

(***************************************************************************)
(* TextEditorDialog's document handlers (connected while cursors exist).   *)
(***************************************************************************)
\* Faulty variant of store_user_action: the operation is buffered twice.
store_user_action_twice(st, act) ==
    IF st.in_user_action
    THEN [st EXCEPT !.user_actions = Append(Append(@, act), act)]
    ELSE st

\* TextEditorDialog.store_user_action
store_user_action(st, act) ==
    IF st.in_user_action
    THEN [st EXCEPT !.user_actions = Append(@, act)]
    ELSE st

\* Faulty variant of insert: the absolute offset is stored instead of the
\* distance from the primary selection's start.
insert_absolute_offset(st, o, t) ==
    IF st.in_user_action /\ ~st.is_modifying_programmatically
    THEN store_user_action(st,
            [fn |-> "mc_insert", start_delta |-> o, end_delta |-> 0, text |-> t])
    ELSE st

\* TextEditorDialog.insert (insert-text handler)
insert(st, o, t) ==
    IF st.in_user_action /\ ~st.is_modifying_programmatically
    THEN store_user_action(st,
            [fn |-> "mc_insert", start_delta |-> o - Selection(st)[1],
             end_delta |-> 0, text |-> t])
    ELSE st

\* TextEditorDialog.delete (delete-range handler)
delete(st, a, b) ==
    IF st.in_user_action /\ ~st.is_modifying_programmatically
    THEN store_user_action(st,
            [fn |-> "mc_delete",
             start_delta |-> order_iters(a, b)[1] - Selection(st)[1],
             end_delta |-> order_iters(a, b)[2] - Selection(st)[2],
             text |-> <<>>])
    ELSE st

\* TextEditorDialog.begin_user_action
begin_user_action(st) ==
    [st EXCEPT !.user_actions = <<>>, !.in_user_action = TRUE]

\* A handler connected n times runs n times (n is 0 or 1 when the hooks
\* are managed correctly).
Hooked(st, handled) == IF st.handlers > 0 THEN handled ELSE st

(***************************************************************************)
(* The buffer: signal emission followed by the default handler.            *)
(***************************************************************************)
\* Default insert-text handler: the characters and every mark.
DefaultInsert(st, o, t) ==
    LET n == Len(t) IN
    [st EXCEPT
        !.doc = TextInsert(@, o, t),
        !.insert = MarkAfterInsert(@, FALSE, o, n),
        !.selection_bound = MarkAfterInsert(@, FALSE, o, n),
        !.cursors = [i \in DOMAIN st.cursors |->
            [st.cursors[i] EXCEPT
                !.s = MarkAfterInsert(@, st.cursors[i].lg, o, n),
                !.e = MarkAfterInsert(@, FALSE, o, n)]],
        !.matches = [i \in DOMAIN st.matches |->
            [s |-> MarkAfterInsert(st.matches[i].s, TRUE, o, n),
             e |-> MarkAfterInsert(st.matches[i].e, FALSE, o, n)]]]

\* Default delete-range handler: the characters and every mark.
DefaultDelete(st, a, b) ==
    [st EXCEPT
        !.doc = TextDelete(@, a, b),
        !.insert = MarkAfterDelete(@, a, b),
        !.selection_bound = MarkAfterDelete(@, a, b),
        !.cursors = [i \in DOMAIN st.cursors |->
            [st.cursors[i] EXCEPT !.s = MarkAfterDelete(@, a, b),
                                  !.e = MarkAfterDelete(@, a, b)]],
        !.matches = [i \in DOMAIN st.matches |->
            [s |-> MarkAfterDelete(st.matches[i].s, a, b),
             e |-> MarkAfterDelete(st.matches[i].e, a, b)]]]

\* GtkTextBuffer.insert(iter, text): nothing is emitted for empty text;
\* the connected handlers run before the default handler.
buffer_insert(st, o, t) ==
    IF t = <<>> THEN st
    ELSE LET s1 == UndoManager_on_insert_text(st, o, t)
             s2 == Hooked(s1, insert(s1, o, t))
         IN DefaultInsert(s2, o, t)

\* GtkTextBuffer.delete(start, end): nothing is emitted for an empty range;
\* the iterators are put in order first.
buffer_delete(st, x, y) ==
    IF x = y THEN st
    ELSE LET a == order_iters(x, y)[1]
             b == order_iters(x, y)[2]
             s1 == UndoManager_on_delete_range(st, a, b)
             s2 == Hooked(s1, delete(s1, a, b))
         IN DefaultDelete(s2, a, b)

(***************************************************************************)
(* MarkTag and Cursor.                                                     *)
(***************************************************************************)
\* MarkTag.move_marks / do_move_marks with both iterators given: the marks
\* end at the new offsets (do_move_marks runs only on a change, and then
\* moves both).
move_marks(c, new_start, new_end) == [c EXCEPT !.s = new_start, !.e = new_end]

\* MarkTag.set_capturing_gravity on cursor i: the start mark is recreated
\* at its offset with the wanted gravity.
set_capturing_gravity(st, i, capture) ==
    [st EXCEPT !.cursors[i].lg = capture]

\* The offset Cursor.insert inserts at.
CursorInsertOffset(st, i, start_delta) ==
    get_iter_at_offset(st.doc, st.cursors[i].s + start_delta)

\* Cursor.insert(start_delta, text) on cursor i
Cursor_insert(st, i, start_delta, t) ==
    LET o == CursorInsertOffset(st, i, start_delta)
        s1 == set_capturing_gravity(st, i, FALSE)
        s2 == buffer_insert(s1, o, t)
    IN set_capturing_gravity(s2, i, TRUE)

\* Cursor.delete(start_delta, end_delta) on cursor i (the tag re-sync of
\* do_move_marks() without arguments moves no mark)
Cursor_delete(st, i, start_delta, end_delta) ==
    buffer_delete(st,
        get_iter_at_offset(st.doc, st.cursors[i].s + start_delta),
        get_iter_at_offset(st.doc, st.cursors[i].e + end_delta))

\* j is processed before i by sorted(cursors, key=start offset, reverse=True):
\* the sort is stable, equal keys keep their list order.
SortsBefore(cs, j, i) ==
    cs[j].s > cs[i].s \/ (cs[j].s = cs[i].s /\ j < i)

\* sorted(self.cursors, key=start offset, reverse=True), as list indexes
sorted_cursors(cs) ==
    [k \in DOMAIN cs |->
        CHOOSE i \in DOMAIN cs :
            Cardinality({j \in DOMAIN cs : SortsBefore(cs, j, i)}) = k - 1]

\* The text mc_insert gives cursor c.
mc_insert_text(st, c, t) ==
    IF st.handled_paste /\ t = st.clipboard
    THEN (IF c.clipboard # <<>> THEN c.clipboard ELSE t)
    ELSE t

RECURSIVE mc_insert_loop(_, _, _, _, _)
mc_insert_loop(st, order, k, start_delta, t) ==
    IF k > Len(order) THEN st
    ELSE mc_insert_loop(
            Cursor_insert(st, order[k], start_delta,
                          mc_insert_text(st, st.cursors[order[k]], t)),
            order, k + 1, start_delta, t)

\* TextEditorDialog.mc_insert
mc_insert(st, start_delta, t) ==
    [mc_insert_loop(st, sorted_cursors(st.cursors), 1, start_delta, t)
        EXCEPT !.handled_paste = FALSE]

RECURSIVE mc_delete_loop(_, _, _, _, _)
mc_delete_loop(st, order, k, start_delta, end_delta) ==
    IF k > Len(order) THEN st
    ELSE mc_delete_loop(Cursor_delete(st, order[k], start_delta, end_delta),
                        order, k + 1, start_delta, end_delta)

\* TextEditorDialog.mc_delete
mc_delete(st, start_delta, end_delta) ==
    mc_delete_loop(st, sorted_cursors(st.cursors), 1, start_delta, end_delta)

\* TextEditorDialog.clear_matches
clear_matches(st) == [st EXCEPT !.matches = <<>>]

RECURSIVE run_user_actions(_, _, _)
run_user_actions(st, acts, k) ==
    IF k > Len(acts) THEN st
    ELSE run_user_actions(
            IF acts[k].fn = "mc_insert"
            THEN mc_insert(st, acts[k].start_delta, acts[k].text)
            ELSE mc_delete(st, acts[k].start_delta, acts[k].end_delta),
            acts, k + 1)

\* TextEditorDialog.end_user_action
end_user_action(st) ==
    IF st.in_user_action
    THEN LET actions_to_run == st.user_actions
             s1 == [st EXCEPT !.in_user_action = FALSE, !.user_actions = <<>>]
         IN IF actions_to_run = <<>> THEN s1
            ELSE LET s2 == [clear_matches(s1) EXCEPT
                                !.is_modifying_programmatically = TRUE]
                     s3 == run_user_actions(s2, actions_to_run, 1)
                 IN [s3 EXCEPT !.is_modifying_programmatically = FALSE]
    ELSE st

\* GtkTextBuffer.begin_user_action: emits begin-user-action; UndoManager's
\* handler was connected first, the dialog's when the first cursor was added.
buffer_begin_user_action(st) ==
    LET s1 == UndoManager_on_begin_user_action(st)
    IN Hooked(s1, begin_user_action(s1))

\* Faulty variant of buffer_end_user_action: UndoManager's handler runs
\* before the dialog's.
buffer_end_user_action_closes_first(st) ==
    LET s1 == UndoManager_on_end_user_action(st)
    IN Hooked(s1, end_user_action(s1))

\* GtkTextBuffer.end_user_action: emits end-user-action; the dialog's
\* handler (connect) runs before UndoManager's (connect_after).
buffer_end_user_action(st) ==
    UndoManager_on_end_user_action(Hooked(st, end_user_action(st)))

(***************************************************************************)
(* Undo actions and UndoManager.undo / redo.                               *)
(***************************************************************************)
\* InsertAction.undo / DeleteAction.undo
Action_undo(st, a) ==
    IF a.type = "insert"
    THEN buffer_delete(st, get_iter_at_offset(st.doc, a.offset),
                           get_iter_at_offset(st.doc, a.offset + Len(a.text)))
    ELSE buffer_insert(st, get_iter_at_offset(st.doc, a.offset), a.text)

\* InsertAction.redo / DeleteAction.redo
Action_redo(st, a) ==
    IF a.type = "insert"
    THEN buffer_insert(st, get_iter_at_offset(st.doc, a.offset), a.text)
    ELSE buffer_delete(st, get_iter_at_offset(st.doc, a.offset),
                           get_iter_at_offset(st.doc, a.offset + Len(a.text)))

\* Faulty variant of undo_actions: the first k actions are undone in the
\* order they were recorded.
RECURSIVE undo_actions_in_recorded_order(_, _, _)
undo_actions_in_recorded_order(st, acts, k) ==
    IF k < 1 THEN st
    ELSE Action_undo(undo_actions_in_recorded_order(st, acts, k - 1), acts[k])

\* for action in reversed(self.actions): action.undo()
RECURSIVE undo_actions(_, _, _)
undo_actions(st, acts, k) ==
    IF k < 1 THEN st
    ELSE undo_actions(Action_undo(st, acts[k]), acts, k - 1)

\* Faulty variant of redo_actions: the actions from the k-th on are redone
\* last one first.
RECURSIVE redo_actions_in_reverse_order(_, _, _)
redo_actions_in_reverse_order(st, acts, k) ==
    IF k > Len(acts) THEN st
    ELSE Action_redo(redo_actions_in_reverse_order(st, acts, k + 1), acts[k])

\* for action in self.actions: action.redo()
RECURSIVE redo_actions(_, _, _)
redo_actions(st, acts, k) ==
    IF k > Len(acts) THEN st
    ELSE redo_actions(Action_redo(st, acts[k]), acts, k + 1)

\* The saved offsets of cursor object id, or <<>> when it has none.
SavedOffsets(saved, id) ==
    IF \E k \in DOMAIN saved : saved[k].id = id
    THEN LET k == CHOOSE k \in DOMAIN saved : saved[k].id = id
         IN <<saved[k].s, saved[k].e>>
    ELSE <<>>

\* Faulty variant of restore_cursors: the saved offsets are given to the
\* cursors by their position in the list instead of by cursor object.
restore_cursors_by_position(st, primary, saved) ==
    [st EXCEPT
        !.insert = get_iter_at_offset(st.doc, primary[1]),
        !.selection_bound = get_iter_at_offset(st.doc, primary[2]),
        !.cursors = [i \in DOMAIN st.cursors |->
            IF i \in DOMAIN saved
            THEN move_marks(st.cursors[i],
                            get_iter_at_offset(st.doc, saved[i].s),
                            get_iter_at_offset(st.doc, saved[i].e))
            ELSE st.cursors[i]]]

\* The restore half of MultiCursorUndoAction.undo / redo: the primary marks
\* and every saved cursor that is still in dialog.cursors.
restore_cursors(st, primary, saved) ==
    [st EXCEPT
        !.insert = get_iter_at_offset(st.doc, primary[1]),
        !.selection_bound = get_iter_at_offset(st.doc, primary[2]),
        !.cursors = [i \in DOMAIN st.cursors |->
            LET off == SavedOffsets(saved, st.cursors[i].id)
            IN IF off = <<>> THEN st.cursors[i]
               ELSE move_marks(st.cursors[i],
                               get_iter_at_offset(st.doc, off[1]),
                               get_iter_at_offset(st.doc, off[2]))]]

\* CompositeAction.undo / MultiCursorUndoAction.undo
Group_undo(st, g) ==
    LET s1 == undo_actions(st, g.actions, Len(g.actions))
    IN IF g.kind = "multi"
       THEN restore_cursors(s1, g.primary_before, g.secondary_before)
       ELSE s1

\* Faulty variant of Group_redo: the pre-transaction offsets are restored.
Group_redo_restores_before(st, g) ==
    LET s1 == redo_actions(st, g.actions, 1)
    IN IF g.kind = "multi"
       THEN restore_cursors(s1, g.primary_before, g.secondary_before)
       ELSE s1

\* CompositeAction.redo / MultiCursorUndoAction.redo
Group_redo(st, g) ==
    LET s1 == redo_actions(st, g.actions, 1)
    IN IF g.kind = "multi"
       THEN restore_cursors(s1, g.primary_after, g.secondary_after)
       ELSE s1

Front(q) == SubSeq(q, 1, Len(q) - 1)
Top(q) == q[Len(q)]

\* Faulty variant of UndoManager.undo: the group is undone inside a user
\* action instead of under the undo lock.
UndoManager_undo_as_user_action(st) ==
    IF st.undo_stack = <<>> THEN [st |-> st, ret |-> FALSE]
    ELSE LET g == Top(st.undo_stack)
             s1 == buffer_begin_user_action([st EXCEPT !.undo_stack = Front(@)])
             s2 == buffer_end_user_action(Group_undo(s1, g))
         IN [st |-> [s2 EXCEPT !.redo_stack = Append(@, g)], ret |-> TRUE]

\* Faulty variant of UndoManager.undo: True is returned on an empty stack.
UndoManager_undo_always_true(st) ==
    IF st.undo_stack = <<>> THEN [st |-> st, ret |-> TRUE]
    ELSE LET g == Top(st.undo_stack)
             s1 == [st EXCEPT !.undo_stack = Front(@), !.undo_lock = TRUE]
             s2 == Group_undo(s1, g)
         IN [st |-> [s2 EXCEPT !.undo_lock = FALSE,
                               !.redo_stack = Append(@, g)],
             ret |-> TRUE]

\* UndoManager.undo: [st, ret]
UndoManager_undo(st) ==
    IF st.undo_stack = <<>> THEN [st |-> st, ret |-> FALSE]
    ELSE LET g == Top(st.undo_stack)
             s1 == [st EXCEPT !.undo_stack = Front(@), !.undo_lock = TRUE]
             s2 == Group_undo(s1, g)
         IN [st |-> [s2 EXCEPT !.undo_lock = FALSE,
                               !.redo_stack = Append(@, g)],
             ret |-> TRUE]

\* UndoManager.redo: [st, ret]
UndoManager_redo(st) ==
    IF st.redo_stack = <<>> THEN [st |-> st, ret |-> FALSE]
    ELSE LET g == Top(st.redo_stack)
             s1 == [st EXCEPT !.redo_stack = Front(@), !.undo_lock = TRUE]
             s2 == Group_redo(s1, g)
         IN [st |-> [s2 EXCEPT !.undo_lock = FALSE,
                               !.undo_stack = Append(@, g)],
             ret |-> TRUE]

\* Faulty variant of TextEditorDialog.undo: the controls are not refreshed.
undo_without_refresh(st) ==
    LET r == UndoManager_undo(st)
    IN [st |-> r.st, ret |-> r.ret]

\* TextEditorDialog.undo
undo(st) ==
    LET r == UndoManager_undo(st)
    IN [st |-> IF r.ret THEN update_undo_redo_sensitivity(r.st) ELSE r.st,
        ret |-> r.ret]

\* TextEditorDialog.redo
redo(st) ==
    LET r == UndoManager_redo(st)
    IN [st |-> IF r.ret THEN update_undo_redo_sensitivity(r.st) ELSE r.st,
        ret |-> r.ret]

\* TextEditorDialog.set_initial_content: GtkTextBuffer.set_text deletes the
\* whole content and inserts the text at offset 0, outside a user action;
\* both stacks are cleared and the controls refreshed.
set_initial_content(st, text) ==
    LET s1 == buffer_delete(st, 0, Len(st.doc))
        s2 == buffer_insert(s1, 0, text)
    IN update_undo_redo_sensitivity(
           [s2 EXCEPT !.undo_stack = <<>>, !.redo_stack = <<>>])

\* Text d without the newlines it starts with.
RECURSIVE skip_blank_lines(_)
skip_blank_lines(d) ==
    IF d # <<>> /\ d[1] = NL THEN skip_blank_lines(Tail(d)) ELSE d

\* Text d without the newlines it ends with.
RECURSIVE strip_final_newlines(_)
strip_final_newlines(d) ==
    IF d # <<>> /\ d[Len(d)] = NL
    THEN strip_final_newlines(SubSeq(d, 1, Len(d) - 1)) ELSE d

\* Text d with every run of blank lines reduced to one blank line.
RECURSIVE squeeze_blank_lines(_)
squeeze_blank_lines(d) ==
    IF Len(d) < 3 THEN d
    ELSE IF d[1] = NL /\ d[2] = NL /\ d[3] = NL
    THEN squeeze_blank_lines(Tail(d))
    ELSE <<d[1]>> \o squeeze_blank_lines(Tail(d))

\* The output of `shfmt -i 2 -s` for a script of one-word commands, one
\* per line: the blank lines at both ends are dropped, runs of blank lines
\* become one blank line, and the output ends with a newline; no input
\* gives no output.
shfmt(d) ==
    LET body == squeeze_blank_lines(strip_final_newlines(skip_blank_lines(d)))
    IN IF body = <<>> THEN <<>> ELSE Append(body, NL)

\* How the run of the formatter ends: with its output, with
\* FileNotFoundError, or with CalledProcessError.
FormatterOutcomes == {"ok", "missing", "failed"}

\* TextEditorDialog.format_content: on success GtkTextBuffer.set_text runs
\* between begin_user_action and end_user_action; both exceptions are only
\* logged.
format_content(st, outcome) ==
    IF outcome = "ok"
    THEN LET formatted_content == shfmt(st.doc)
             s1 == buffer_begin_user_action(st)
             s2 == buffer_delete(s1, 0, Len(s1.doc))
             s3 == buffer_insert(s2, 0, formatted_content)
         IN buffer_end_user_action(s3)
    ELSE st

(***************************************************************************)
(* Cursor manager: add / remove / clear.                                   *)
(***************************************************************************)
\* Cursor objects that are alive: in the list, or referenced by a saved group.
SavedIds(stack) ==
    UNION {{stack[k].secondary_before[j].id : j \in DOMAIN stack[k].secondary_before}
           \cup {stack[k].secondary_after[j].id : j \in DOMAIN stack[k].secondary_after}
           : k \in DOMAIN stack}

UsedIds(st) ==
    {st.cursors[i].id : i \in DOMAIN st.cursors}
        \cup SavedIds(st.undo_stack) \cup SavedIds(st.redo_stack)

\* The identity of a newly constructed Cursor: distinct from every object
\* still referenced.
NewId(st) ==
    CHOOSE n \in 1..(Cardinality(UsedIds(st)) + 1) :
        n \notin UsedIds(st) /\ \A m \in 1..(n - 1) : m \in UsedIds(st)

\* Cursor(view, start_iter, end_iter)
Cursor(id, start_iter, end_iter) ==
    [id |-> id, s |-> start_iter, e |-> end_iter, lg |-> TRUE,
     clipboard |-> <<>>, line_offset |-> -1]

\* TextEditorDialog._hook_document_handlers
hook_document_handlers(st) == [st EXCEPT !.handlers = @ + 1]

\* TextEditorDialog._unhook_document_handlers
unhook_document_handlers(st) == [st EXCEPT !.handlers = 0]

\* Faulty variant of add_cursor: the handlers are connected on every call.
add_cursor_always_hooks(st, start_iter, end_iter) ==
    [hook_document_handlers(st)
        EXCEPT !.cursors = Append(@, Cursor(NewId(st), start_iter, end_iter))]

\* TextEditorDialog.add_cursor
add_cursor(st, start_iter, end_iter) ==
    LET s1 == IF st.cursors = <<>> THEN hook_document_handlers(st) ELSE st
    IN [s1 EXCEPT !.cursors = Append(@, Cursor(NewId(st), start_iter, end_iter))]

\* Faulty variant of remove_cursor: the oldest cursor is removed.
remove_first_cursor(st) ==
    IF st.cursors # <<>>
    THEN LET s1 == [st EXCEPT !.cursors = Tail(@)]
         IN IF s1.cursors = <<>> THEN unhook_document_handlers(s1) ELSE s1
    ELSE st

\* TextEditorDialog.remove_cursor(-1)
remove_cursor(st) ==
    IF st.cursors # <<>>
    THEN LET s1 == [st EXCEPT !.cursors = Front(@)]
         IN IF s1.cursors = <<>> THEN unhook_document_handlers(s1) ELSE s1
    ELSE st

RECURSIVE remove_all_cursors(_)
remove_all_cursors(st) ==
    IF st.cursors # <<>> THEN remove_all_cursors(remove_cursor(st)) ELSE st

\* TextEditorDialog.clear_cursors
clear_cursors(st) == clear_matches(remove_all_cursors(st))

\* TextEditorDialog.unmatch_cursor
unmatch_cursor(st) == remove_cursor(st)

(***************************************************************************)
(* Lines of the buffer (GtkTextIter line functions).                       *)
(***************************************************************************)
\* GtkTextIter.get_line: the number of line ends before offset o
get_line(d, o) == Cardinality({k \in 1..o : d[k] = NL})

\* GtkTextBuffer.get_line_count
line_count(d) == get_line(d, Len(d)) + 1

\* Offset of the first character of a line, 0 <= line < line_count
LineStart(d, line) ==
    IF line = 0 THEN 0
    ELSE CHOOSE o \in 1..Len(d) : d[o] = NL /\ get_line(d, o) = line

\* GtkTextIter.set_line: a negative or too large line number moves to the
\* start of the last line.
set_line(d, line) ==
    IF line < 0 \/ line >= line_count(d)
    THEN LineStart(d, line_count(d) - 1)
    ELSE LineStart(d, line)

\* GtkTextIter.get_chars_in_line, counting the line end
get_chars_in_line(d, o) ==
    LET line == get_line(d, o)
    IN IF line = line_count(d) - 1 THEN Len(d) - LineStart(d, line)
       ELSE LineStart(d, line + 1) - LineStart(d, line)

\* GtkTextIter.get_line_offset
get_line_offset(d, o) == o - LineStart(d, get_line(d, o))

\* GtkTextIter.set_line_offset(k), k <= chars in line: k = chars in line
\* moves to the start of the next line (the end of the buffer on the last).
set_line_offset(d, o, k) == LineStart(d, get_line(d, o)) + k

(***************************************************************************)
(* Casing (detect / split / join), used to build the fuzzy alternatives.   *)
(***************************************************************************)
Lowers == <<"a", "b", "c", "d", "e", "f", "g", "h", "i", "j", "k", "l", "m",
            "n", "o", "p", "q", "r", "s", "t", "u", "v", "w", "x", "y", "z">>
Uppers == <<"A", "B", "C", "D", "E", "F", "G", "H", "I", "J", "K", "L", "M",
            "N", "O", "P", "Q", "R", "S", "T", "U", "V", "W", "X", "Y", "Z">>
Digits == {"0", "1", "2", "3", "4", "5", "6", "7", "8", "9"}

IsLower(c) == \E k \in DOMAIN Lowers : Lowers[k] = c
IsUpper(c) == \E k \in DOMAIN Uppers : Uppers[k] = c
IsDigit(c) == c \in Digits
IsAlnum(c) == IsLower(c) \/ IsUpper(c) \/ IsDigit(c)
IsWord(c) == IsAlnum(c) \/ c = "_"
IsSurround(c) == c = "_" \/ c = "-"

\* str.lower() on one character
ToLower(c) ==
    IF IsUpper(c) THEN Lowers[CHOOSE k \in DOMAIN Uppers : Uppers[k] = c] ELSE c

\* str.lower()
Lower(t) == [k \in DOMAIN t |-> ToLower(t[k])]

All(t, P(_)) == \A k \in DOMAIN t : P(t[k])
Some(t, P(_)) == \E k \in DOMAIN t : P(t[k])

\* Casing.match_surround matches unless a line end lies before the last
\* character ('.' matches no line end, '$' matches before a final one).
SurroundMatches(t) == \A k \in 1..(Len(t) - 1) : t[k] # NL

\* group(2) of Casing.match_surround: the text without its [_-]* prefix and
\* suffix; the text itself when the pattern does not match.
SurroundBody(t) ==
    IF ~SurroundMatches(t) THEN t
    ELSE LET u == IF t # <<>> /\ t[Len(t)] = NL THEN Front(t) ELSE t
         IN IF All(u, IsSurround) THEN <<>>
            ELSE LET a == CHOOSE k \in DOMAIN u :
                            ~IsSurround(u[k]) /\ \A j \in 1..(k - 1) : IsSurround(u[j])
                     b == CHOOSE k \in DOMAIN u :
                            ~IsSurround(u[k]) /\ \A j \in (k + 1)..Len(u) : IsSurround(u[j])
                 IN SubSeq(u, a, b)

IsLowDigSur(c) == IsLower(c) \/ IsDigit(c) \/ IsSurround(c)
IsUpDigSur(c) == IsUpper(c) \/ IsDigit(c) \/ IsSurround(c)
IsWordDash(c) == IsWord(c) \/ c = "-"
IsUpDig(c) == IsUpper(c) \/ IsDigit(c)
IsLowDig(c) == IsLower(c) \/ IsDigit(c)
IsAlnumDash(c) == IsAlnum(c) \/ c = "-"

\* Casing.detect, the case: the first matching pattern of match_cases
detect_case(b) ==
    IF \/ (All(b, IsLowDigSur) /\ Some(b, IsLower))
       \/ (b # <<>> /\ IsLower(b[1]) /\ All(b, IsAlnum))
    THEN "case"
    ELSE IF All(b, IsUpDigSur) /\ Some(b, IsUpper) THEN "CASE"
    ELSE IF All(b, IsWordDash)
            /\ \E k \in 1..(Len(b) - 1) : IsUpper(b[k]) /\ IsLower(b[k + 1])
    THEN "Case"
    ELSE "None"

\* Casing.detect, the separator: the first matching pattern of
\* match_separators ("None" for the first pattern's key and for no match)
detect_separator(b) ==
    IF b = <<>> THEN "None"
    ELSE IF \/ All(b, IsUpDig)
            \/ All(b, IsLowDig)
            \/ (Len(b) >= 2 /\ IsUpper(b[1]) /\ IsLower(b[2])
                /\ \A k \in 3..Len(b) : IsLowDig(b[k]))
    THEN "None"
    ELSE IF All(b, IsAlnum) THEN ""
    ELSE IF All(b, IsWord) THEN "_"
    ELSE IF All(b, IsAlnumDash) THEN "-"
    ELSE "None"

\* str.split(c)
RECURSIVE str_split(_, _)
str_split(t, c) ==
    IF \E k \in DOMAIN t : t[k] = c
    THEN LET k == CHOOSE k \in DOMAIN t : t[k] = c /\ \A j \in 1..(k - 1) : t[j] # c
         IN <<SubSeq(t, 1, k - 1)>> \o str_split(SubSeq(t, k + 1, Len(t)), c)
    ELSE <<t>>

\* A ',' is put after character k: lower before upper, or upper before
\* an upper that starts a capitalised word.
WordBoundary(t, k) ==
    \/ (IsLower(t[k]) /\ IsUpper(t[k + 1]))
    \/ (IsUpper(t[k]) /\ IsUpper(t[k + 1]) /\ k + 2 <= Len(t) /\ IsLower(t[k + 2]))

\* Casing.split for separator '': cut at the word boundaries, lower-cased
RECURSIVE camel_split(_)
camel_split(t) ==
    IF \E k \in 1..(Len(t) - 1) : WordBoundary(t, k)
    THEN LET k == CHOOSE k \in 1..(Len(t) - 1) :
                    WordBoundary(t, k) /\ \A j \in 1..(k - 1) : ~WordBoundary(t, j)
         IN <<Lower(SubSeq(t, 1, k))>> \o camel_split(SubSeq(t, k + 1, Len(t)))
    ELSE <<Lower(t)>>

\* Casing().detect(text).split(text)
Casing_split(t) ==
    CHOOSE words \in
        UNION {{IF sep = "_" THEN str_split(b, "_")
                ELSE IF sep = "-" THEN str_split(b, "-")
                ELSE IF sep = "" THEN camel_split(b)
                ELSE <<b>>
                : sep \in {detect_separator(b)}}
               : b \in {SurroundBody(t)}}
        : TRUE

\* Faulty variant of Casing_join: the separator is left out.
RECURSIVE Casing_join_without_separator(_, _)
Casing_join_without_separator(words, sep) ==
    IF Len(words) = 0 THEN <<>>
    ELSE words[1] \o Casing_join_without_separator(Tail(words), sep)

\* Casing('lower', separator).join(words): 'lower' is none of the cases
\* join re-cases, the prefix and suffix are empty: separator.join(words)
RECURSIVE Casing_join(_, _)
Casing_join(words, sep) ==
    IF Len(words) = 0 THEN <<>>
    ELSE IF Len(words) = 1 THEN words[1]
    ELSE words[1] \o sep \o Casing_join(Tail(words), sep)

\* The alternatives of get_next_match(fuzzy=True), without the empty ones
alternatives(t) ==
    UNION {{t, Casing_join(words, <<"_">>), Casing_join(words, <<"-">>),
            Casing_join(words, <<>>)} \ {<<>>}
           : words \in {Casing_split(t)}}

(***************************************************************************)
(* Searching (GtkTextIter.forward_search).                                 *)
(***************************************************************************)
\* pat occurs at offset o; case-insensitively with the CASE_INSENSITIVE flag
OccursAt(d, pat, o, case_insensitive) ==
    /\ o + Len(pat) <= Len(d)
    /\ \A k \in DOMAIN pat :
          IF case_insensitive THEN ToLower(d[o + k]) = ToLower(pat[k])
          ELSE d[o + k] = pat[k]

\* forward_search(pat, flags, limit) from offset from: the first occurrence
\* at or after from, found only if it ends at or before the limit (-1: no
\* limit); nothing when from is at or beyond the limit.  <<>> is None.
forward_search(d, pat, from, limit, case_insensitive) ==
    IF limit # -1 /\ from >= limit THEN <<>>
    ELSE IF \E o \in from..Len(d) : OccursAt(d, pat, o, case_insensitive)
    THEN LET o == CHOOSE o \in from..Len(d) :
                    /\ OccursAt(d, pat, o, case_insensitive)
                    /\ \A j \in from..(o - 1) : ~OccursAt(d, pat, j, case_insensitive)
         IN IF limit = -1 \/ o + Len(pat) <= limit
            THEN <<o, o + Len(pat)>> ELSE <<>>
    ELSE <<>>

\* TextEditorDialog.get_next_match.  The fuzzy branch keeps the match with
\* the smallest start; between two alternatives that match at the same
\* offset the set's iteration order decides (tie_long: the longer one first).
get_next_match(st, t, search_start, search_end, fuzzy) ==
    IF fuzzy
    THEN LET found == {forward_search(st.doc, alt, search_start, search_end, TRUE)
                        : alt \in alternatives(t)} \ {<<>>}
         IN IF found = {} THEN <<>>
            ELSE LET first == {m \in found : \A x \in found : m[1] <= x[1]}
                 IN CHOOSE m \in first :
                        \A x \in first : IF st.tie_long THEN x[2] <= m[2]
                                         ELSE m[2] <= x[2]
    ELSE forward_search(st.doc, t, search_start, search_end, FALSE)

\* TextEditorDialog.tag_all_matches: scan[from] is what the loop appends
\* to self.matches once start_iter is at offset from.
tag_all_matches(st, t, fuzzy) ==
    LET scan[from \in 0..Len(st.doc)] ==
            LET m == get_next_match(st, t, from, -1, fuzzy)
            IN IF m = <<>> THEN <<>>
               ELSE (IF m[1] = Selection(st)[1] THEN <<>>
                     ELSE <<[s |-> m[1], e |-> m[2]]>>) \o scan[m[2]]
    IN [st EXCEPT !.matches = @ \o scan[0]]

\* The search_end of match_cursor's first search (-1 is None)
match_search_end(search_start, sel_start) ==
    IF search_start < sel_start THEN sel_start ELSE -1

\* Faulty variant of match_cursor: the selected text is not checked, and
\* the empty text is found at the selection's end.
match_cursor_without_text_check(st, fuzzy) ==
    LET sel_start == Selection(st)[1]
        sel_end == Selection(st)[2]
        t == get_text(st.doc, sel_start, sel_end)
    IN IF t = <<>> THEN add_cursor(st, sel_end, sel_end)
       ELSE LET s1 == IF st.cursors # <<>> THEN st
                      ELSE tag_all_matches(st, t, fuzzy)
                search_start == IF st.cursors # <<>>
                                THEN st.cursors[Len(st.cursors)].e
                                ELSE sel_end
                search_end == match_search_end(search_start, sel_start)
                m1 == get_next_match(st, t, search_start, search_end, fuzzy)
                m2 == IF m1 = <<>> /\ search_start >= sel_end
                      THEN get_next_match(st, t, 0, sel_start, fuzzy)
                      ELSE m1
            IN IF m2 # <<>> THEN add_cursor(s1, m2[1], m2[2]) ELSE s1

\* TextEditorDialog.match_cursor (tag_all_matches leaves the document
\* alone: the searches read the document of st)
match_cursor(st, fuzzy) ==
    LET sel_start == Selection(st)[1]
        sel_end == Selection(st)[2]
        t == get_text(st.doc, sel_start, sel_end)
    IN IF t = <<>> THEN st
       ELSE LET s1 == IF st.cursors # <<>> THEN st
                      ELSE tag_all_matches(st, t, fuzzy)
                search_start == IF st.cursors # <<>>
                                THEN st.cursors[Len(st.cursors)].e
                                ELSE sel_end
                search_end == match_search_end(search_start, sel_start)
                m1 == get_next_match(st, t, search_start, search_end, fuzzy)
                m2 == IF m1 = <<>> /\ search_start >= sel_end
                      THEN get_next_match(st, t, 0, sel_start, fuzzy)
                      ELSE m1
            IN IF m2 # <<>> THEN add_cursor(s1, m2[1], m2[2]) ELSE s1

(***************************************************************************)
(* Column select and caret movement.                                       *)
(***************************************************************************)
\* The column column_select gives an endpoint on its target line.
column_offset(d, sel_iter, target_iter) ==
    Min(get_line_offset(d, sel_iter), get_chars_in_line(d, target_iter))

\* Faulty variant of column_select: the direction rule looks at the wrong
\* edge of the span (upward if the smallest covered line is the primary's,
\* downward if the largest one is).
column_select_wrong_edge(st, line_delta) ==
    LET d == st.doc
        sel_start == Selection(st)[1]
        sel_end == Selection(st)[2]
        sel_line == get_line(d, sel_start)
        lines == {sel_line} \cup {get_line(d, st.cursors[i].s) : i \in DOMAIN st.cursors}
        min_line == CHOOSE l \in lines : \A m \in lines : l <= m
        max_line == CHOOSE l \in lines : \A m \in lines : l >= m
        start_line == IF line_delta < 0 /\ min_line = sel_line THEN min_line
                      ELSE IF line_delta > 0 /\ max_line = sel_line THEN max_line
                      ELSE -1
    IN IF start_line = -1 THEN unmatch_cursor(st)
       ELSE LET line == start_line + line_delta
                s0 == set_line(d, line)
                start_iter == set_line_offset(d, s0, column_offset(d, sel_start, s0))
                e0 == set_line(d, line + (get_line(d, sel_end) - get_line(d, sel_start)))
                end_iter == set_line_offset(d, e0, column_offset(d, sel_end, e0))
            IN IF get_line(d, start_iter) # start_line
               THEN add_cursor(st, start_iter, end_iter)
               ELSE st

\* TextEditorDialog.column_select
column_select(st, line_delta) ==
    LET d == st.doc
        sel_start == Selection(st)[1]
        sel_end == Selection(st)[2]
        sel_line == get_line(d, sel_start)
        lines == {sel_line} \cup {get_line(d, st.cursors[i].s) : i \in DOMAIN st.cursors}
        min_line == CHOOSE l \in lines : \A m \in lines : l <= m
        max_line == CHOOSE l \in lines : \A m \in lines : l >= m
        start_line == IF line_delta < 0 /\ max_line = sel_line THEN min_line
                      ELSE IF line_delta > 0 /\ min_line = sel_line THEN max_line
                      ELSE -1
    IN IF start_line = -1 THEN unmatch_cursor(st)
       ELSE LET line == start_line + line_delta
                s0 == set_line(d, line)
                start_iter == set_line_offset(d, s0, column_offset(d, sel_start, s0))
                e0 == set_line(d, line + (get_line(d, sel_end) - get_line(d, sel_start)))
                end_iter == set_line_offset(d, e0, column_offset(d, sel_end, e0))
            IN IF get_line(d, start_iter) # start_line
               THEN add_cursor(st, start_iter, end_iter)
               ELSE st

\* GtkTextIter.forward_cursor_positions / backward_cursor_positions
move_positions(d, pos, count) ==
    IF count < 0 THEN Max(0, pos + count) ELSE Min(Len(d), pos + count)

\* GtkTextIter.forward_word_end: the next offset behind pos where a word
\* ends; the end of the buffer when there is none.
forward_word_end(d, pos) ==
    LET ends == {o \in (pos + 1)..Len(d) :
                    IsAlnum(d[o]) /\ (o = Len(d) \/ ~IsAlnum(d[o + 1]))}
    IN IF ends = {} THEN Len(d)
       ELSE CHOOSE o \in ends : \A q \in ends : o <= q

\* GtkTextIter.backward_word_start: the nearest offset before pos where a
\* word starts; the iterator stays when there is none.
backward_word_start(d, pos) ==
    LET starts == {o \in 0..(pos - 1) :
                    IsAlnum(d[o + 1]) /\ (o = 0 \/ ~IsAlnum(d[o]))}
    IN IF starts = {} THEN pos
       ELSE CHOOSE o \in starts : \A q \in starts : o >= q

\* The offset of the line end of a line (the end of the buffer on the last)
LineEnd(d, line) ==
    IF line = line_count(d) - 1 THEN Len(d) ELSE LineStart(d, line + 1) - 1

\* GtkTextIter.forward_to_line_end: to the end of the line, from there to
\* the end of the next line; it stays at the end of the buffer.
forward_to_line_end(d, pos) ==
    LET line == get_line(d, pos)
    IN IF pos < LineEnd(d, line) THEN LineEnd(d, line)
       ELSE IF line = line_count(d) - 1 THEN pos
       ELSE LineEnd(d, line + 1)

\* Cursor.move_iter: [pos, line_offset] (line_offset -1 is None)
move_iter(d, c, pos, step_size, count) ==
    IF step_size = "VISUAL_POSITIONS"
    THEN [pos |-> move_positions(d, pos, count), line_offset |-> -1]
    ELSE IF step_size = "WORDS"
    THEN [pos |-> IF count > 0 THEN forward_word_end(d, pos)
                  ELSE backward_word_start(d, pos),
          line_offset |-> -1]
    ELSE IF step_size = "DISPLAY_LINES"
    THEN LET remembered == IF c.line_offset = -1 THEN get_line_offset(d, pos)
                           ELSE c.line_offset
             target == set_line(d, get_line(d, pos) + count)
         IN [pos |-> set_line_offset(d, target,
                        Min(remembered, get_chars_in_line(d, target) - 1)),
             line_offset |-> remembered]
    ELSE IF step_size = "DISPLAY_LINE_ENDS"
    THEN [pos |-> IF count < 0 THEN set_line_offset(d, pos, 0)
                  ELSE forward_to_line_end(d, pos),
          line_offset |-> -1]
    ELSE [pos |-> pos, line_offset |-> -1]

\* The step granularities Cursor.move_iter knows.
CursorSteps == {"VISUAL_POSITIONS", "WORDS", "DISPLAY_LINES", "DISPLAY_LINE_ENDS"}

\* Faulty variant of Cursor.move: a selection is collapsed and the step is
\* then applied from the collapsed position.
Cursor_move_steps_after_collapse(d, c, step_size, count, extend_selection) ==
    IF extend_selection
    THEN LET m == move_iter(d, c, IF count < 0 THEN c.s ELSE c.e, step_size, count)
         IN [move_marks(c, IF count < 0 THEN m.pos ELSE c.s,
                           IF count < 0 THEN c.e ELSE m.pos)
                EXCEPT !.line_offset = m.line_offset]
    ELSE LET m == move_iter(d, c, IF count < 0 THEN c.s ELSE c.e, step_size, count)
         IN [move_marks(c, m.pos, m.pos) EXCEPT !.line_offset = m.line_offset]

\* Cursor.move
Cursor_move(d, c, step_size, count, extend_selection) ==
    IF extend_selection
    THEN LET m == move_iter(d, c, IF count < 0 THEN c.s ELSE c.e, step_size, count)
         IN [move_marks(c, IF count < 0 THEN m.pos ELSE c.s,
                           IF count < 0 THEN c.e ELSE m.pos)
                EXCEPT !.line_offset = m.line_offset]
    ELSE LET has_selection == c.s # c.e
             new_pos == IF count < 0 THEN c.s ELSE c.e
         IN IF has_selection THEN move_marks(c, new_pos, new_pos)
            ELSE LET m == move_iter(d, c, new_pos, step_size, count)
                 IN [move_marks(c, m.pos, m.pos) EXCEPT !.line_offset = m.line_offset]

\* Faulty variant of mc_move_cursor: every kind of movement is passed on
\* to the cursors.
mc_move_cursor_without_reset(st, step_size, count, extend_selection) ==
    LET s1 == clear_matches(st)
    IN [s1 EXCEPT !.cursors = [i \in DOMAIN s1.cursors |->
            Cursor_move(s1.doc, s1.cursors[i], step_size, count, extend_selection)]]

\* TextEditorDialog.mc_move_cursor
mc_move_cursor(st, step_size, count, extend_selection) ==
    LET s1 == clear_matches(st)
    IN IF step_size \in {"BUFFER_ENDS", "PAGES"} THEN clear_cursors(s1)
       ELSE [s1 EXCEPT !.cursors = [i \in DOMAIN s1.cursors |->
                Cursor_move(s1.doc, s1.cursors[i], step_size, count, extend_selection)]]

\* The view's own move-cursor handler on the primary caret: a movement that
\* does not extend collapses an existing selection towards the movement.
\* A page movement in a view that cannot scroll (the document fits in it)
\* puts the caret at the buffer's start or end.
view_move_cursor(st, step_size, count, extend_selection) ==
    LET sel == Selection(st)
        target ==
            IF step_size \in {"BUFFER_ENDS", "PAGES"}
            THEN (IF count < 0 THEN 0 ELSE Len(st.doc))
            ELSE IF step_size = "WORDS"
            THEN (IF count > 0 THEN forward_word_end(st.doc, st.insert)
                  ELSE backward_word_start(st.doc, st.insert))
            ELSE IF step_size = "DISPLAY_LINE_ENDS"
            THEN (IF count < 0 THEN set_line_offset(st.doc, st.insert, 0)
                  ELSE LineEnd(st.doc, get_line(st.doc, st.insert)))
            ELSE IF ~extend_selection /\ sel[1] # sel[2]
            THEN (IF count < 0 THEN sel[1] ELSE sel[2])
            ELSE move_positions(st.doc, st.insert, count)
    IN [st EXCEPT !.insert = target,
                  !.selection_bound = IF extend_selection THEN @ ELSE target]

\* The view's handler for a movement by display lines: the caret goes to
\* the offset target that the view picks on the line it moves to.
view_move_lines(st, target, extend_selection) ==
    [st EXCEPT !.insert = target,
               !.selection_bound = IF extend_selection THEN @ ELSE target]

\* Where a movement of the primary caret by one display line may end: on
\* the adjacent line at the column the view remembers, which is not part
\* of the dialog's state; at the first or last line the caret stays or
\* goes to the buffer's start or end.
view_line_targets(st, count) ==
    LET line == get_line(st.doc, st.insert) + count
    IN IF line \in 0..(line_count(st.doc) - 1)
       THEN LineStart(st.doc, line)..LineEnd(st.doc, line)
       ELSE {st.insert, IF count < 0 THEN 0 ELSE Len(st.doc)}

(***************************************************************************)
(* User edits, as the view performs them on the buffer.                    *)
(***************************************************************************)
\* Typing or pasting text t: one user action that deletes the selection
\* and inserts at the insert mark.
commit_text(st, t) ==
    LET s1 == buffer_begin_user_action(st)
        s2 == buffer_delete(s1, Selection(s1)[1], Selection(s1)[2])
        s3 == buffer_insert(s2, s2.insert, t)
    IN buffer_end_user_action(s3)

\* Backspace: deletes the selection, else the character before the caret;
\* no user action begins when there is nothing to delete.
backspace(st) ==
    LET sel == Selection(st)
        a == IF sel[1] # sel[2] THEN sel[1] ELSE Max(0, st.insert - 1)
        b == IF sel[1] # sel[2] THEN sel[2] ELSE st.insert
    IN IF a = b THEN st
       ELSE buffer_end_user_action(
                buffer_delete(buffer_begin_user_action(st), a, b))

\* Cursor.save_text
Cursor_save_text(d, c) ==
    [c EXCEPT !.clipboard = get_text(d, order_iters(c.s, c.e)[1],
                                        order_iters(c.s, c.e)[2])]

\* TextEditorDialog.mc_save_clipboard
mc_save_clipboard(st) ==
    [st EXCEPT
        !.clipboard = get_text(st.doc, Selection(st)[1], Selection(st)[2]),
        !.cursors = [i \in DOMAIN st.cursors |->
                        Cursor_save_text(st.doc, st.cursors[i])]]

\* TextEditorDialog.mc_paste_clipboard
mc_paste_clipboard(st) == [st EXCEPT !.handled_paste = TRUE]

\* The view's copy-clipboard signal: mc_save_clipboard, then the view
\* hands the selected text to the system clipboard.
copy_clipboard(st) == mc_save_clipboard(st)

\* The view's cut-clipboard signal: mc_save_clipboard, then the view
\* deletes a non-empty selection in one user action.
cut_clipboard(st) ==
    LET s1 == mc_save_clipboard(st)
    IN IF Selection(s1)[1] = Selection(s1)[2] THEN s1
       ELSE buffer_end_user_action(
                buffer_delete(buffer_begin_user_action(s1),
                              Selection(s1)[1], Selection(s1)[2]))

\* The view's paste-clipboard signal: mc_paste_clipboard, then the view
\* inserts the text t of the system clipboard over the selection in one
\* user action; t = <<>> is a clipboard without text, nothing is done.
paste_clipboard(st, t) ==
    LET s1 == mc_paste_clipboard(st)
    IN IF t = <<>> THEN s1 ELSE commit_text(s1, t)

\* The selections insert_at_cursor collects: every cursor's range in list
\* order, then the primary selection, a range already seen left out.
unique_selections(st) ==
    LET all_selections ==
            [i \in 1..(Len(st.cursors) + 1) |->
                IF i <= Len(st.cursors)
                THEN order_iters(st.cursors[i].s, st.cursors[i].e)
                ELSE Selection(st)]
        pick[i \in 0..Len(all_selections)] ==
            IF i = 0 THEN <<>>
            ELSE IF \E j \in 1..(i - 1) : all_selections[j] = all_selections[i]
            THEN pick[i - 1]
            ELSE Append(pick[i - 1], all_selections[i])
    IN pick[Len(all_selections)]

\* sorted(unique_selections, key=start offset, reverse=True)
sorted_selections(sels) ==
    [k \in DOMAIN sels |->
        sels[CHOOSE i \in DOMAIN sels :
                Cardinality({j \in DOMAIN sels :
                    \/ sels[j][1] > sels[i][1]
                    \/ (sels[j][1] = sels[i][1] /\ j < i)}) = k - 1]]

\* What the buffer does with a GtkTextIter that was taken before the
\* characters changed: the call is rejected with a warning, or the offset
\* cached in the iterator is used.
StaleIterators == {"rejected", "cached"}

\* The loop of insert_at_cursor over the collected iterators; modified
\* tells whether the characters changed since they were collected.
\* buffer.delete re-initialises the iterators it was given, so the
\* insertion that follows a deletion is at the deletion point.
RECURSIVE insert_selections(_, _, _, _, _, _)
insert_selections(st, sels, k, t, modified, stale) ==
    IF k > Len(sels) THEN st
    ELSE IF modified /\ stale = "rejected"
    THEN insert_selections(st, sels, k + 1, t, modified, stale)
    ELSE LET start == Min(sels[k][1], Len(st.doc))
             end == Min(sels[k][2], Len(st.doc))
             s1 == buffer_delete(st, start, end)
             s2 == buffer_insert(s1, start, t)
         IN insert_selections(s2, sels, k + 1, t,
                              modified \/ start # end \/ t # <<>>, stale)

\* Faulty variant of insert_at_cursor: the programmatic-modification flag
\* is left set when the call returns.
insert_at_cursor_keeps_flag(st, t, stale) ==
    LET s0 == [st EXCEPT !.is_modifying_programmatically = TRUE]
        s1 == buffer_begin_user_action(s0)
        s2 == insert_selections(s1, sorted_selections(unique_selections(s1)),
                                1, t, FALSE, stale)
    IN buffer_end_user_action(s2)

\* TextEditorDialog.insert_at_cursor
insert_at_cursor(st, t, stale) ==
    LET s0 == [st EXCEPT !.is_modifying_programmatically = TRUE]
        s1 == buffer_begin_user_action(s0)
        s2 == insert_selections(s1, sorted_selections(unique_selections(s1)),
                                1, t, FALSE, stale)
        s3 == buffer_end_user_action(s2)
    IN [s3 EXCEPT !.is_modifying_programmatically = FALSE]

(***************************************************************************)
(* History variables (not program state): what the claims are stated on.   *)
(***************************************************************************)
\* What a user sees of the editing state.
View(st) ==
    [doc |-> st.doc, insert |-> st.insert,
     selection_bound |-> st.selection_bound, cursors |-> CursorOffsets(st)]

NoView == [doc |-> <<>>, insert |-> -1, selection_bound |-> -1, cursors |-> <<>>]

NoTxn == [fresh |-> "stale", op |-> "", pre |-> NoView]

NoSnap == [view |-> NoView, undo_stack |-> <<>>]

\* A transaction was recorded: a group was pushed onto the undo stack.
Recorded(op, old, new) ==
    /\ op \in {"type", "backspace", "insert_at_cursor", "cut", "paste"}
    /\ Len(new.undo_stack) = Len(old.undo_stack) + 1

\* txn: the state before the latest recorded transaction, kept while the
\* next event is awaited ("txn") and after an undo that directly follows
\* it ("undone").
TxnNext(op, ret, old, new) ==
    IF Recorded(op, old, new)
    THEN [fresh |-> "txn", op |-> op, pre |-> View(old)]
    ELSE IF op = "undo" /\ ret /\ txn.fresh = "txn"
    THEN [txn EXCEPT !.fresh = "undone"]
    ELSE NoTxn

\* run: stage "T" right after the n-th recorded transaction since the start
\* (snap is the state then), "M" after other events that follow it, "U"
\* while u of the n groups have been undone, "R" while r have been redone
\* after all n were undone, "X" once the history is of another shape.
RunNext(op, ret, old, new) ==
    IF Recorded(op, old, new)
    THEN IF run.stage \in {"T", "M"}
         THEN [stage |-> "T", n |-> run.n + 1, u |-> 0, r |-> 0,
               snap |-> [view |-> View(new), undo_stack |-> new.undo_stack]]
         ELSE [stage |-> "X", n |-> 0, u |-> 0, r |-> 0, snap |-> NoSnap]
    ELSE IF op = "undo" /\ ret /\ run.stage \in {"T", "U"} /\ run.u < run.n
    THEN [run EXCEPT !.stage = "U", !.u = @ + 1]
    ELSE IF op = "redo" /\ ret /\ run.stage \in {"U", "R"}
            /\ run.u = run.n /\ run.r < run.n
    THEN [run EXCEPT !.stage = "R", !.r = @ + 1]
    ELSE IF run.stage \in {"T", "M"} /\ op \notin {"undo", "redo"}
    THEN [run EXCEPT !.stage = "M", !.snap = NoSnap]
    ELSE [stage |-> "X", n |-> 0, u |-> 0, r |-> 0, snap |-> NoSnap]

(***************************************************************************)
(* Events.                                                                 *)
(***************************************************************************)
Commit(new) ==
    /\ doc' = new.doc
    /\ insert_mark' = new.insert
    /\ selection_bound' = new.selection_bound
    /\ cursors' = new.cursors
    /\ matches' = new.matches
    /\ handlers' = new.handlers
    /\ undo_stack' = new.undo_stack
    /\ redo_stack' = new.redo_stack
    /\ undo_lock' = new.undo_lock
    /\ current_action_group' = new.current_action_group
    /\ in_user_action' = new.in_user_action
    /\ is_modifying_programmatically' = new.is_modifying_programmatically
    /\ user_actions' = new.user_actions
    /\ handled_paste' = new.handled_paste
    /\ clipboard' = new.clipboard
    /\ undo_sensitive' = new.undo_sensitive
    /\ redo_sensitive' = new.redo_sensitive
    /\ tie_long' = new.tie_long

Event(op, ret, new) ==
    /\ ntxn' = IF Recorded(op, State, new) THEN ntxn + 1 ELSE ntxn
    /\ Commit(new)
    /\ last' = [op |-> op, ret |-> ret, ncur |-> Len(cursors),
                nredo |-> Len(redo_stack),
                down_run |-> /\ op = "column_select_down"
                             /\ (cursors = <<>> \/ last.down_run)]
    /\ txn' = TxnNext(op, ret, State, new)
    /\ run' = RunNext(op, ret, State, new)

\* The model stops growing the document at its bound.
WithinBounds(new) == Len(new.doc) <= MaxLen

TypedChars == {"x"}

\* A key that is not in the keymap: the view commits the character.
TypeEvent(limit) ==
    \E c \in TypedChars :
        \E new \in {commit_text(State, <<c>>)} :
            ntxn < limit /\ WithinBounds(new) /\ Event("type", TRUE, new)

BackspaceEvent(limit) ==
    \E new \in {backspace(State)} :
        ntxn < limit /\ WithinBounds(new) /\ Event("backspace", TRUE, new)

KeyType == TypeEvent(MaxTxn)

KeyBackspace == BackspaceEvent(MaxTxn)

InsertedTexts == {<<>>, <<"x">>}

\* insert_at_cursor(text), called by the dialog's tools; a call that records
\* nothing is not counted against the limit of recorded transactions.
InsertEvent(limit) ==
    \E t \in InsertedTexts, stale \in StaleIterators :
        \E new \in {insert_at_cursor(State, t, stale)} :
            /\ new.undo_stack # undo_stack => ntxn < limit
            /\ WithinBounds(new)
            /\ Event("insert_at_cursor", TRUE, new)

\* on_event, BUTTON_PRESS without Control: clear_cursors(), then the view
\* puts the caret at the press (selection_bound) and drags insert to b.
SelectEvent(offsets) ==
    \E a \in offsets, b \in offsets :
        \E new \in {[clear_cursors(State) EXCEPT !.insert = b,
                                                !.selection_bound = a]} :
            Event("select", TRUE, new)

MouseSelect == SelectEvent(0..Len(doc))

\* on_event, BUTTON_PRESS with Control: add_cursor(pos, pos)
CtrlClickEvent(limit) ==
    \E pos \in 0..Len(doc) :
        /\ Len(cursors) < limit
        /\ \E new \in {add_cursor(State, pos, pos)} :
                Event("ctrl_click", TRUE, new)

CtrlClick == CtrlClickEvent(MaxCursors)

\* keymap 'Escape'
KeyEscape ==
    \E new \in {clear_cursors(State)} : Event("clear_cursors", TRUE, new)

\* keymap '<Primary>d'
MatchEvent(limit) ==
    \E new \in {match_cursor(State, FALSE)} :
        /\ Len(new.cursors) <= limit
        /\ Len(new.matches) <= MaxMatches
        /\ Event("match_cursor", TRUE, new)

KeyMatch == MatchEvent(MaxCursors)

\* keymap '<Primary><Shift>d'
KeyMatchFuzzy ==
    \E new \in {match_cursor(State, TRUE)} :
        /\ Len(new.cursors) <= MaxCursors
        /\ Len(new.matches) <= MaxMatches
        /\ Event("match_cursor_fuzzy", TRUE, new)

\* keymap '<Primary>u'
KeyUnmatch ==
    \E new \in {unmatch_cursor(State)} : Event("unmatch_cursor", TRUE, new)

\* keymap '<Primary>Down'
KeyColumnDown ==
    \E new \in {column_select(State, 1)} :
        Len(new.cursors) <= MaxCursors /\ Event("column_select_down", TRUE, new)

\* keymap '<Primary>Up'
KeyColumnUp ==
    \E new \in {column_select(State, -1)} :
        Len(new.cursors) <= MaxCursors /\ Event("column_select_up", TRUE, new)

\* keymap '<Primary>z' and the Undo button
KeyUndo == \E r \in {undo(State)} : Event("undo", r.ret, r.st)

\* keymap '<Primary>y', '<Primary><Shift>z' and the Redo button
KeyRedo == \E r \in {redo(State)} : Event("redo", r.ret, r.st)

\* The kinds of movement the keys produce here: Left / Right, Ctrl-Home /
\* Ctrl-End, Page Up / Page Down.
MovementSteps == {"VISUAL_POSITIONS", "BUFFER_ENDS", "PAGES"}

\* The name under which a movement is remembered in last.op.
MoveOp(step_size) ==
    IF step_size \in {"BUFFER_ENDS", "PAGES"} THEN "move_cursor_ends"
    ELSE "move_cursor"

\* The view's move-cursor signal: mc_move_cursor, then the view's handler.
MoveCursor ==
    \E step_size \in MovementSteps,
       count \in {-1, 1}, extend_selection \in BOOLEAN :
        \E new \in {view_move_cursor(
                        mc_move_cursor(State, step_size, count, extend_selection),
                        step_size, count, extend_selection)} :
            Event(MoveOp(step_size), TRUE, new)

(***************************************************************************)
(* Initial states: the dialog after __init__ and set_initial_content.      *)
(***************************************************************************)
InitWith(docs, ties) ==
    /\ doc \in docs
    /\ insert_mark = Len(doc)
    /\ selection_bound = Len(doc)
    /\ cursors = <<>>
    /\ matches = <<>>
    /\ handlers = 0
    /\ undo_stack = <<>>
    /\ redo_stack = <<>>
    /\ undo_lock = FALSE
    /\ current_action_group = NoGroup
    /\ in_user_action = FALSE
    /\ is_modifying_programmatically = FALSE
    /\ user_actions = <<>>
    /\ handled_paste = FALSE
    /\ clipboard = <<>>
    /\ undo_sensitive = FALSE
    /\ redo_sensitive = FALSE
    /\ tie_long \in ties
    /\ ntxn = 0
    /\ last = [op |-> "init", ret |-> TRUE, ncur |-> 0, nredo |-> 0,
               down_run |-> FALSE]
    /\ txn = NoTxn
    /\ run = [stage |-> "T", n |-> 0, u |-> 0, r |-> 0, snap |-> NoSnap]

\* Editing with at most MaxEditCursors cursors, undo and redo, from the
\* empty document, up to MaxTxn recorded transactions.
EditDocs == {<<>>}

EditCtrlClick == CtrlClickEvent(MaxEditCursors)

Init == InitWith(EditDocs, {FALSE})

Next ==
    \/ KeyType
    \/ KeyBackspace
    \/ MouseSelect
    \/ EditCtrlClick
    \/ KeyEscape
    \/ KeyUnmatch
    \/ KeyUndo
    \/ KeyRedo
    \/ MoveCursor

Spec == Init /\ [][Next]_vars

(***************************************************************************)
(* One transaction: the carets are placed on "ab", one edit is made, and   *)
(* it is undone and redone.                                                *)
(***************************************************************************)
TypeDocs == {<<"a", "b">>}

Placing == ntxn = 0

PlaceSelect == Placing /\ MouseSelect

PlaceCtrlClick == Placing /\ CtrlClick

PlaceEscape == Placing /\ KeyEscape

PlaceUnmatch == Placing /\ KeyUnmatch

PlaceMove == Placing /\ MoveCursor

TypeOnce == TypeEvent(1)

BackspaceOnce == BackspaceEvent(1)

InsertOnce == InsertEvent(1)

\* set_initial_content(text) called again on the open dialog.
LoadContent ==
    \E text \in TypeDocs :
        \E new \in {set_initial_content(State, text)} :
            Event("set_initial_content", TRUE, new)

InitType == InitWith(TypeDocs, {FALSE})

NextType ==
    \/ PlaceSelect
    \/ PlaceCtrlClick
    \/ PlaceEscape
    \/ PlaceUnmatch
    \/ PlaceMove
    \/ TypeOnce
    \/ BackspaceOnce
    \/ InsertOnce
    \/ KeyUndo
    \/ KeyRedo
    \/ LoadContent

SpecType == InitType /\ [][NextType]_vars

(***************************************************************************)
(* The cursor manager without edits, on the two-line document "a\na".      *)
(***************************************************************************)
CursorDocs == {<<"a", NL, "a">>}

InitCursors == InitWith(CursorDocs, {FALSE})

NextCursors ==
    \/ MouseSelect
    \/ CtrlClick
    \/ KeyEscape
    \/ KeyMatch
    \/ KeyMatchFuzzy
    \/ KeyUnmatch
    \/ KeyColumnDown
    \/ KeyColumnUp
    \/ MoveCursor

SpecCursors == InitCursors /\ [][NextCursors]_vars

(***************************************************************************)
(* Select-next-occurrence on "foo bar foo baz foo", "foofoo" and "aaa".    *)
(***************************************************************************)
Foo == <<"f", "o", "o">>

FooBarFooBazFoo ==
    Foo \o <<" ", "b", "a", "r", " ">> \o Foo \o <<" ", "b", "a", "z", " ">> \o Foo

MatchDocs == {FooBarFooBazFoo, Foo \o Foo, <<"a", "a", "a">>}

InitMatch == InitWith(MatchDocs, {FALSE})

NextMatch ==
    \/ MouseSelect
    \/ KeyMatch
    \/ KeyEscape

SpecMatch == InitMatch /\ [][NextMatch]_vars

(***************************************************************************)
(* Fuzzy select-next-occurrence: "my_variable" followed by two words, each *)
(* one of its spellings or the unrelated "my variable".                    *)
(***************************************************************************)
My == <<"m", "y">>
Variable == <<"v", "a", "r", "i", "a", "b", "l", "e">>
MyVariableSnake == My \o <<"_">> \o Variable
MyVariableKebab == My \o <<"-">> \o Variable
MyVariableFlat == My \o Variable
MyVariableCamel == My \o <<"V">> \o Tail(Variable)
MyVariableWords == My \o <<" ">> \o Variable

Spellings ==
    {MyVariableSnake, MyVariableKebab, MyVariableFlat, MyVariableCamel,
     MyVariableWords}

FuzzyDocs ==
    {MyVariableSnake \o <<" ">> \o v \o <<" ">> \o w : v, w \in Spellings}

\* The offsets where a word of the document starts or ends.
WordEdges(d) ==
    {o \in 0..Len(d) : o = 0 \/ o = Len(d) \/ d[o] = " " \/ d[o + 1] = " "}

\* A selection made from word edge to word edge.
FuzzySelect == SelectEvent(WordEdges(doc))

InitFuzzy == InitWith(FuzzyDocs, {FALSE, TRUE})

NextFuzzy ==
    \/ FuzzySelect
    \/ KeyMatchFuzzy
    \/ KeyEscape

SpecFuzzy == InitFuzzy /\ [][NextFuzzy]_vars

(***************************************************************************)
(* Column select on three-line documents.                                  *)
(***************************************************************************)
ColumnDocs ==
    {<<"a", "b", "c", NL, NL, "x", "y", "z">>,
     <<"a", "b", NL, "c", "d", NL, "e", "f">>}

InitColumn == InitWith(ColumnDocs, {FALSE})

NextColumn ==
    \/ MouseSelect
    \/ KeyColumnDown
    \/ KeyColumnUp
    \/ KeyEscape

SpecColumn == InitColumn /\ [][NextColumn]_vars

(***************************************************************************)
(* Properties.                                                             *)
(***************************************************************************)
(* Caret movement with one cursor on the three lines "ab", "a", "ab".      *)
(***************************************************************************)
MoveDocs == {<<"a", "b", NL, "a", NL, "a", "b">>}

\* Left / Right, Ctrl-Left / Ctrl-Right, Home / End, with or without Shift
MoveKey ==
    \E step_size \in {"VISUAL_POSITIONS", "WORDS", "DISPLAY_LINE_ENDS"},
       count \in {-1, 1}, extend_selection \in BOOLEAN :
        \E new \in {view_move_cursor(
                        mc_move_cursor(State, step_size, count, extend_selection),
                        step_size, count, extend_selection)} :
            Event(MoveOp(step_size), TRUE, new)

\* Up / Down, with or without Shift
MoveLines ==
    \E count \in {-1, 1}, extend_selection \in BOOLEAN :
        \E target \in view_line_targets(State, count) :
            \E new \in {view_move_lines(
                            mc_move_cursor(State, "DISPLAY_LINES", count,
                                           extend_selection),
                            target, extend_selection)} :
                Event("move_cursor_lines", TRUE, new)

MoveCtrlClick == CtrlClickEvent(1)

InitMove == InitWith(MoveDocs, {FALSE})

NextMove ==
    \/ MoveCtrlClick
    \/ KeyEscape
    \/ MoveKey
    \/ MoveLines

SpecMove == InitMove /\ [][NextMove]_vars

(***************************************************************************)
(* Copy, cut and paste with one cursor on "x a", and one recorded edit.    *)
(***************************************************************************)
PasteDocs == {<<"x", " ", "a">>}

\* What the system clipboard may hold at a paste: no text, or "x" (the
\* text copied here or elsewhere).
PastedTexts == {<<>>, <<"x">>}

\* A click that puts the caret somewhere
PasteClick ==
    Placing /\ \E a \in 0..Len(doc) : SelectEvent({a})

PasteCtrlClick == Placing /\ CtrlClickEvent(1)

\* Shift-Left / Shift-Right
ExtendKey ==
    /\ Placing
    /\ \E count \in {-1, 1} :
        \E new \in {view_move_cursor(
                        mc_move_cursor(State, "VISUAL_POSITIONS", count, TRUE),
                        "VISUAL_POSITIONS", count, TRUE)} :
            Event("move_cursor", TRUE, new)

\* Ctrl-C
KeyCopy ==
    Placing /\ \E new \in {copy_clipboard(State)} : Event("copy", TRUE, new)

\* Ctrl-X
KeyCut ==
    \E new \in {cut_clipboard(State)} :
        /\ IF new.undo_stack # undo_stack THEN ntxn < 1 ELSE Placing
        /\ Event("cut", TRUE, new)

\* Ctrl-V
KeyPaste ==
    \E t \in PastedTexts :
        \E new \in {paste_clipboard(State, t)} :
            /\ IF new.undo_stack # undo_stack THEN ntxn < 1 ELSE Placing
            /\ WithinBounds(new)
            /\ Event("paste", TRUE, new)

InitPaste == InitWith(PasteDocs, {FALSE})

NextPaste ==
    \/ PasteClick
    \/ PasteCtrlClick
    \/ ExtendKey
    \/ KeyCopy
    \/ KeyCut
    \/ KeyPaste
    \/ TypeOnce

SpecPaste == InitPaste /\ [][NextPaste]_vars

(***************************************************************************)
(* Formatting the content, with and without a cursor, undo and redo.       *)
(***************************************************************************)
FormatDocs == {<<"a">>, <<NL, "a", "b">>}

\* Most groups on both stacks together in SpecFormat
MaxFormats == 1

\* A click that puts the caret somewhere
FormatClick == \E a \in 0..Len(doc) : SelectEvent({a})

FormatCtrlClick == CtrlClickEvent(1)

\* Ctrl-I
FormatContent ==
    \E outcome \in FormatterOutcomes :
        \E new \in {format_content(State, outcome)} :
            /\ Len(new.undo_stack) + Len(new.redo_stack) <= MaxFormats
            /\ WithinBounds(new)
            /\ Event("format_content", outcome = "ok", new)

InitFormat == InitWith(FormatDocs, {FALSE})

NextFormat ==
    \/ FormatClick
    \/ FormatCtrlClick
    \/ KeyEscape
    \/ FormatContent
    \/ KeyUndo
    \/ KeyRedo

SpecFormat == InitFormat /\ [][NextFormat]_vars

(***************************************************************************)
\* The cursors of view v are zero-width and at strictly increasing offsets.
IncreasingCarets(v) ==
    /\ \A i \in DOMAIN v.cursors : v.cursors[i].s = v.cursors[i].e
    /\ \A i, j \in DOMAIN v.cursors : i < j => v.cursors[i].s < v.cursors[j].s

\* The state is the one right after the undo of a typing transaction that
\* started from a primary caret and at least one cursor, the cursors
\* zero-width at strictly increasing offsets.
C1_Case ==
    /\ last.op = "undo" /\ last.ret
    /\ txn.fresh = "undone" /\ txn.op = "type"
    /\ txn.pre.insert = txn.pre.selection_bound
    /\ txn.pre.cursors # <<>>
    /\ IncreasingCarets(txn.pre)

\* C1: with one or more cursors at strictly increasing offsets, one undo()
\* after a single typing transaction (text typed at the primary caret and
\* replayed at every cursor) returns the document, the primary
\* caret/selection offsets and every cursor's (start, end) offsets to the
\* values they had before the transaction.
C1_UndoRoundTrip == C1_Case => View(State) = txn.pre

C1_Witness ==
    /\ C1_Case
    /\ Len(txn.pre.cursors) = 2
    /\ txn.pre.insert = 1
    /\ View(State) = txn.pre

\* Text x inserted into d at the offsets of the set, largest offset first.
RECURSIVE InsertDescending(_, _, _)
InsertDescending(d, offsets, x) ==
    IF offsets = {} THEN d
    ELSE LET o == CHOOSE o \in offsets : \A q \in offsets : q <= o
         IN InsertDescending(TextInsert(d, o, x), offsets \ {o}, x)

\* The state is the one right after text was typed at a primary caret p
\* with zero-width cursors at pairwise distinct offsets other than p.
C3_Case ==
    /\ last.op = "type"
    /\ txn.fresh = "txn" /\ txn.op = "type"
    /\ txn.pre.insert = txn.pre.selection_bound
    /\ \A i \in DOMAIN txn.pre.cursors :
            /\ txn.pre.cursors[i].s = txn.pre.cursors[i].e
            /\ txn.pre.cursors[i].s # txn.pre.insert
    /\ \A i, j \in DOMAIN txn.pre.cursors :
            i # j => txn.pre.cursors[i].s # txn.pre.cursors[j].s

\* C3: typing X at the primary caret p with zero-width cursors at pairwise
\* distinct offsets c1 < ... < ck, all different from p, gives the document
\* obtained by inserting X into the original at the offsets {p, c1, ..., ck}
\* one at a time in descending offset order.
C3_InsertDeterminism ==
    C3_Case =>
        \E c \in TypedChars :
            doc = InsertDescending(
                    txn.pre.doc,
                    {txn.pre.insert}
                        \cup {txn.pre.cursors[i].s : i \in DOMAIN txn.pre.cursors},
                    <<c>>)

C3_Witness ==
    /\ C3_Case
    /\ Len(txn.pre.cursors) = 2
    /\ txn.pre.insert = 1
    /\ doc = <<"x", "a", "x", "b", "x">>

\* The primary selection and its text.
SelStart == Selection(State)[1]
SelEnd == Selection(State)[2]
SelText == get_text(doc, SelStart, SelEnd)

\* The offsets of the literal occurrences of the selected text other than
\* the primary selection itself.
OtherOccurrences ==
    {o \in 0..Len(doc) : o # SelStart /\ OccursAt(doc, SelText, o, FALSE)}

\* The occurrence that follows offset from, wrapping to the first one.
NextOccurrence(from) ==
    IF \E o \in OtherOccurrences : o >= from
    THEN CHOOSE o \in OtherOccurrences :
            o >= from /\ \A q \in OtherOccurrences : q >= from => o <= q
    ELSE CHOOSE o \in OtherOccurrences : \A q \in OtherOccurrences : o <= q

\* C4: starting Inactive with a non-empty primary selection of text t,
\* successive match_cursor(fuzzy=False) calls each add exactly one cursor
\* spanning the next literal occurrence of t after the previously added
\* cursor (the first search starts at the primary selection's end, the
\* search wraps once to the document start), and once every other
\* occurrence of t carries a cursor a further call adds nothing; on
\* "foo bar foo baz foo" with the primary selection 0..3 the cursors are
\* added at 8 and 16 and the third call is a no-op.
C4_MatchSequence ==
    (last.op = "match_cursor" /\ SelText # <<>>) =>
        /\ \A i \in DOMAIN cursors :
                /\ cursors[i].s \in OtherOccurrences
                /\ cursors[i].e = cursors[i].s + Len(SelText)
        /\ IF OtherOccurrences \subseteq {cursors[i].s : i \in 1..last.ncur}
           THEN Len(cursors) = last.ncur
           ELSE /\ Len(cursors) = last.ncur + 1
                /\ cursors[Len(cursors)].s =
                      NextOccurrence(IF last.ncur = 0 THEN SelEnd
                                     ELSE cursors[last.ncur].e)

\* The lowest line covered by the primary selection and the cursors.
LowestCoveredLine ==
    LET lines == {get_line(doc, SelStart)}
                    \cup {get_line(doc, cursors[i].s) : i \in DOMAIN cursors}
    IN CHOOSE l \in lines : \A m \in lines : m <= l

\* C5: repeated column_select(+1) only grows the covered line range
\* downward: each call adds exactly one cursor on the line directly below
\* the lowest covered line, or is a no-op at the buffer end; and a
\* column_select(-1) right after a column_select(+1) removes exactly the
\* most recently added cursor and adds none.  (Stated for a primary
\* selection within one line and runs that start without cursors.)
C5_ColumnMonotone ==
    [][/\ (last'.down_run /\ get_line(doc, SelStart) = get_line(doc, SelEnd)) =>
            \/ /\ Len(cursors') = Len(cursors) + 1
               /\ SubSeq(cursors', 1, Len(cursors)) = cursors
               /\ get_line(doc, cursors'[Len(cursors')].s) = LowestCoveredLine + 1
            \/ /\ cursors' = cursors
               /\ LowestCoveredLine = line_count(doc) - 1
       /\ (last.down_run /\ cursors # <<>> /\ last'.op = "column_select_up") =>
            cursors' = Front(cursors)]_vars

\* The spellings the fuzzy search of "my_variable" looks for.
SnakeVariants == {MyVariableSnake, MyVariableKebab, MyVariableFlat}

\* Some spelling occurs at offset o, letter case ignored.
VariantAt(o) == \E v \in SnakeVariants : OccursAt(doc, v, o, TRUE)

\* The state is the one right after the first match_cursor(fuzzy=True) on a
\* primary selection that holds "my_variable".
C6_Case ==
    /\ last.op = "match_cursor_fuzzy" /\ last.ncur = 0
    /\ SelText = MyVariableSnake

\* C6: with the primary selection holding "my_variable", the fuzzy search
\* looks for {the text, the words joined by "_", by "-", and concatenated}
\* with letter case ignored, so the cursor is added on the occurrence of
\* "my_variable", "myVariable", "my-variable" or "myvariable" that starts
\* first after the selection (first before it, when none follows).
C6_FuzzyMatch ==
    C6_Case =>
        /\ alternatives(SelText) = SnakeVariants
        /\ LET after == {o \in SelEnd..Len(doc) : VariantAt(o)}
               before == {o \in 0..SelStart :
                            \E v \in SnakeVariants :
                                /\ OccursAt(doc, v, o, TRUE)
                                /\ o + Len(v) <= SelStart}
               found == IF after # {} THEN after ELSE before
           IN IF found = {} THEN cursors = <<>>
              ELSE /\ Len(cursors) = 1
                   /\ \A o \in found : cursors[1].s <= o
                   /\ \E v \in SnakeVariants :
                        /\ OccursAt(doc, v, cursors[1].s, TRUE)
                        /\ cursors[1].e = cursors[1].s + Len(v)

\* The camel-case spelling was matched although the kebab-case one follows.
C6_Witness ==
    /\ C6_Case
    /\ Len(cursors) = 1
    /\ get_text(doc, cursors[1].s, cursors[1].e) = MyVariableCamel
    /\ \E o \in cursors[1].e..Len(doc) : OccursAt(doc, MyVariableKebab, o, TRUE)

\* All N transactions recorded since the start were undone, and then all N
\* redone, with no other event since transaction N.
C2_Case == run.stage = "R" /\ run.r = run.n

\* C2 as stated: after N recorded transactions, undo() N times and then
\* redo() N times leave the document, the primary selection offsets and all
\* live cursors' offsets as they were right after transaction N, the undo
\* stack holding the same N groups and the redo stack empty.
C2_Original ==
    C2_Case =>
        /\ View(State) = run.snap.view
        /\ undo_stack = run.snap.undo_stack
        /\ redo_stack = <<>>

\* C2 amended: after N recorded transactions, undo() N times and then
\* redo() N times leave the document and all live cursors' offsets as they
\* were right after transaction N, the undo stack holding the same N groups
\* and the redo stack empty; the primary selection offsets are those of
\* that state when transaction N was made with cursors (its group is a
\* MultiCursorUndoAction).
C2_UndoRedoSymmetry ==
    C2_Case =>
        /\ doc = run.snap.view.doc
        /\ CursorOffsets(State) = run.snap.view.cursors
        /\ undo_stack = run.snap.undo_stack
        /\ redo_stack = <<>>
        /\ Top(undo_stack).kind = "multi" =>
                /\ insert_mark = run.snap.view.insert
                /\ selection_bound = run.snap.view.selection_bound

C2_Witness ==
    /\ C2_Case
    /\ run.n = 2
    /\ cursors # <<>>
    /\ Top(undo_stack).kind = "multi"
    /\ undo_stack[1].kind = "composite"
    /\ View(State) = run.snap.view

\* The state is the one right after an edit whose transaction end pushed a
\* group onto the undo stack.
C7_Case == last.op \in {"type", "backspace"} /\ txn.fresh = "txn"

\* C7: whenever a transaction end pushes a group onto the undo stack, the
\* redo stack is empty immediately afterwards, so that redo() then returns
\* False (also after undo() followed by a new recorded edit).
C7_NoRedoAfterEdit ==
    C7_Case => redo_stack = <<>> /\ ~redo(State).ret

\* A recorded edit made while the redo stack held a group.
C7_Witness ==
    /\ C7_Case
    /\ last.nredo > 0
    /\ redo_stack = <<>>
    /\ Len(undo_stack) = 1

\* C8: undo() on an empty undo stack and redo() on an empty redo stack
\* return False and leave the document, both stacks, the primary selection
\* and all cursors unchanged; in every other case they return True.
C8_EmptyStackNoOp ==
    [][/\ last'.op = "undo" => (last'.ret <=> undo_stack # <<>>)
       /\ last'.op = "redo" => (last'.ret <=> redo_stack # <<>>)
       /\ (last'.op \in {"undo", "redo"} /\ ~last'.ret) =>
              UNCHANGED <<doc, undo_stack, redo_stack, insert_mark,
                          selection_bound, cursors>>]_vars

\* undo() was called on an empty undo stack while a redo was possible and
\* a cursor was live.
C8_Witness ==
    /\ last.op = "undo" /\ ~last.ret
    /\ undo_stack = <<>> /\ redo_stack # <<>>
    /\ cursors # <<>>

\* C9: after any sequence of add_cursor, remove_cursor, clear_cursors,
\* match_cursor, unmatch_cursor, column_select and caret movements the
\* document handlers are installed if and only if the cursor collection is
\* non-empty, and never more than once.
C9_HandlersIffCursors == handlers = IF cursors = <<>> THEN 0 ELSE 1

\* One of two cursors was removed: the handlers stay installed once.
C9_Witness ==
    /\ last.op = "unmatch_cursor" /\ last.ncur = 2
    /\ Len(cursors) = 1 /\ handlers = 1

\* C10: no two cursors of the collection have the same (start, end) range.
C10_NoDuplicateRanges ==
    \A i, j \in DOMAIN cursors :
        i # j => <<cursors[i].s, cursors[i].e>> # <<cursors[j].s, cursors[j].e>>

\* C11: in every reachable state every cursor's start offset is at most its
\* end offset, also after column_select with a primary selection that spans
\* lines near the end of the buffer.
C11_StartBeforeEnd == \A i \in DOMAIN cursors : cursors[i].s <= cursors[i].e

\* C12: a match_cursor call that adds no cursor leaves the cursor
\* collection, the match-highlight collection and the document handlers
\* exactly as they were before the call.
C12_ExhaustedSearchNoOp ==
    [][(last'.op = "match_cursor" /\ Len(cursors') = Len(cursors)) =>
            UNCHANGED <<cursors, matches, handlers>>]_vars

\* C13: match_cursor, fuzzy or not, called while the primary selection is
\* empty changes nothing: no cursor is added, no match highlight is
\* created, the document handlers stay as they were and the document is
\* untouched.
C13_EmptySelectionNoOp ==
    [][(/\ last'.op \in {"match_cursor", "match_cursor_fuzzy"}
        /\ insert_mark = selection_bound) =>
            UNCHANGED <<doc, insert_mark, selection_bound, cursors, matches,
                        handlers, undo_stack, redo_stack>>]_vars

\* A fuzzy match_cursor was called with a caret as the primary selection
\* while a cursor was live.
C13_Witness ==
    /\ last.op = "match_cursor_fuzzy"
    /\ insert_mark = selection_bound
    /\ last.ncur = 1 /\ Len(cursors) = 1
    /\ handlers = 1

\* The distinct ordered ranges of view v: the primary selection and every
\* cursor's range.
Ranges(v) ==
    {order_iters(v.insert, v.selection_bound)}
        \cup {order_iters(v.cursors[i].s, v.cursors[i].e) : i \in DOMAIN v.cursors}

\* Document d with every range of the set replaced by x, the range with
\* the largest start first.
RECURSIVE ReplaceDescending(_, _, _)
ReplaceDescending(d, ranges, x) ==
    IF ranges = {} THEN d
    ELSE LET r == CHOOSE r \in ranges : \A q \in ranges : q[1] <= r[1]
         IN ReplaceDescending(TextInsert(TextDelete(d, r[1], r[2]), r[1], x),
                              ranges \ {r}, x)

\* The state is the one right after a recorded insert_at_cursor whose
\* distinct ranges started at different offsets and did not overlap.
C14_Case ==
    /\ last.op = "insert_at_cursor"
    /\ txn.fresh = "txn" /\ txn.op = "insert_at_cursor"
    /\ \A r, q \in Ranges(txn.pre) : r[1] < q[1] => r[2] <= q[1]
    /\ \A r, q \in Ranges(txn.pre) : r[1] = q[1] => r = q

\* C14: insert_at_cursor(text) replaces the primary selection and every
\* cursor's selection by text exactly once each (a cursor range identical
\* to the primary range once), nothing is replayed on top of it, and it is
\* recorded as one undo group whose undo() restores the previous document.
C14_InsertAtCursor ==
    C14_Case =>
        /\ \E t \in InsertedTexts :
                doc = ReplaceDescending(txn.pre.doc, Ranges(txn.pre), t)
        /\ user_actions = <<>>
        /\ undo(State).st.doc = txn.pre.doc

\* The actions, applied in order to document d, delete the text they saved
\* and end with the document result.
RECURSIVE Applies(_, _, _)
Applies(d, acts, result) ==
    IF acts = <<>> THEN d = result
    ELSE LET a == Head(acts)
         IN IF a.type = "insert"
            THEN Applies(TextInsert(d, a.offset, a.text), Tail(acts), result)
            ELSE /\ get_text(d, a.offset, a.offset + Len(a.text)) = a.text
                 /\ Applies(TextDelete(d, a.offset, a.offset + Len(a.text)),
                            Tail(acts), result)

\* C15: with cursors live, every document mutation of one keystroke, the
\* primary edit and the edits replayed onto the cursors, is appended in
\* application order to the same action group, and the transaction
\* pushes exactly that one group onto the undo stack.
C15_OneUndoUnit ==
    [][(/\ last'.op \in {"type", "backspace"}
        /\ cursors # <<>>
        /\ doc' # doc) =>
            /\ Len(undo_stack') = Len(undo_stack) + 1
            /\ Front(undo_stack') = undo_stack
            /\ Top(undo_stack').kind = "multi"
            /\ Applies(doc, Top(undo_stack').actions, doc')
            /\ current_action_group' = NoGroup]_vars

\* A character typed over a primary selection with two cursors: the group
\* holds the primary deletion and insertion and the replayed insertions.
C15_Witness ==
    /\ last.op = "type" /\ last.ncur = 2
    /\ txn.fresh = "txn" /\ txn.pre.insert # txn.pre.selection_bound
    /\ Len(undo_stack) = 1
    /\ Len(undo_stack[1].actions) = 4
    /\ Applies(txn.pre.doc, undo_stack[1].actions, doc)

\* The state is the one right after a recorded keystroke made with cursors.
C16_Case ==
    /\ last.op \in {"type", "backspace"}
    /\ txn.fresh = "txn"
    /\ txn.pre.cursors # <<>>

\* The primitive edits the view makes for the keystroke: typing over a
\* selection deletes and inserts.
C16_PrimaryEdits ==
    IF last.op = "type" /\ txn.pre.insert # txn.pre.selection_bound
    THEN 2 ELSE 1

\* C16: each insert/delete intercepted during a user action is buffered
\* once and applied once to each cursor at the transaction end, the edits
\* of the replay are not buffered or replayed again, and afterwards no
\* operation is pending: the group holds at most one action per primary
\* edit and cursor, a character typed at a caret with caret cursors adds
\* one character per caret, and the buffer of operations is empty.
C16_ExactlyOnceReplay ==
    C16_Case =>
        /\ user_actions = <<>>
        /\ ~in_user_action
        /\ ~is_modifying_programmatically
        /\ Len(Top(undo_stack).actions)
                <= C16_PrimaryEdits * (1 + Len(txn.pre.cursors))
        /\ (/\ last.op = "type"
            /\ txn.pre.insert = txn.pre.selection_bound
            /\ \A i \in DOMAIN txn.pre.cursors :
                    txn.pre.cursors[i].s = txn.pre.cursors[i].e) =>
                /\ Len(doc) = Len(txn.pre.doc) + 1 + Len(txn.pre.cursors)
                /\ Len(Top(undo_stack).actions) = 1 + Len(txn.pre.cursors)

\* A character typed at a caret with two caret cursors.
C16_Witness ==
    /\ C16_Case
    /\ last.op = "type"
    /\ txn.pre.insert = txn.pre.selection_bound
    /\ Len(txn.pre.cursors) = 2
    /\ Len(doc) = Len(txn.pre.doc) + 3
    /\ user_actions = <<>>

\* The document state just before the transaction end of a keystroke made
\* in state st: a typed character or a Backspace.
C17_Edited(st, key) ==
    IF key = "type"
    THEN LET s1 == buffer_begin_user_action(st)
             s2 == buffer_delete(s1, Selection(s1)[1], Selection(s1)[2])
         IN buffer_insert(s2, s2.insert, <<"x">>)
    ELSE LET sel == Selection(st)
         IN buffer_delete(buffer_begin_user_action(st),
                IF sel[1] # sel[2] THEN sel[1] ELSE Max(0, st.insert - 1),
                IF sel[1] # sel[2] THEN sel[2] ELSE st.insert)

\* The state in which end_user_action begins to replay the k-th buffered
\* operation of that keystroke.
C17_ReplayBegins(st, key, k) ==
    LET s1 == C17_Edited(st, key)
        s2 == [clear_matches(s1) EXCEPT !.in_user_action = FALSE,
                                        !.user_actions = <<>>,
                                        !.is_modifying_programmatically = TRUE]
    IN run_user_actions(s2, SubSeq(s1.user_actions, 1, k - 1), 1)

\* The state after operation op was applied to the first n cursors of order.
RECURSIVE C17_Replayed(_, _, _, _)
C17_Replayed(st, op, order, n) ==
    IF n = 0 THEN st
    ELSE LET p == C17_Replayed(st, op, order, n - 1)
         IN IF op.fn = "mc_insert"
            THEN Cursor_insert(p, order[n], op.start_delta,
                               mc_insert_text(p, p.cursors[order[n]], op.text))
            ELSE Cursor_delete(p, order[n], op.start_delta, op.end_delta)

\* The replay of op from state b: the cursors are taken in non-increasing
\* order of their start offsets, no edit changes the start offset of a
\* cursor that is still pending, and the offsets of the actions it
\* records are non-increasing.
C17_ReplayInOrder(b, op) ==
    LET order == sorted_cursors(b.cursors)
        done == C17_Replayed(b, op, order, Len(order))
        before == Len(b.current_action_group.actions)
        recorded == done.current_action_group.actions
    IN /\ \A k \in 1..(Len(order) - 1) :
                b.cursors[order[k]].s >= b.cursors[order[k + 1]].s
       /\ \A n \in 1..Len(order), j \in 1..Len(order) :
                n < j => C17_Replayed(b, op, order, n).cursors[order[j]].s
                            = b.cursors[order[j]].s
       /\ \A k \in (before + 1)..(Len(recorded) - 1) :
                recorded[k].offset >= recorded[k + 1].offset

\* C17: for each operation buffered by a keystroke the cursors are
\* processed in non-increasing order of their start offsets as read when
\* its replay begins, an edit applied at one cursor never changes the
\* offset of a cursor still pending for that operation, and the absolute
\* offsets of the actions recorded for it are non-increasing.
C17_DescendingReplay ==
    \A key \in {"type", "backspace"} :
        LET pending == C17_Edited(State, key).user_actions
        IN \A k \in DOMAIN pending :
                C17_ReplayInOrder(C17_ReplayBegins(State, key, k), pending[k])

\* Document d with the actions inverted, the last one first: an insertion
\* is deleted, a deletion gets its text back.
RECURSIVE Inverted(_, _)
Inverted(d, acts) ==
    IF acts = <<>> THEN d
    ELSE LET a == Top(acts)
         IN Inverted(IF a.type = "insert"
                     THEN TextDelete(d, a.offset, a.offset + Len(a.text))
                     ELSE TextInsert(d, a.offset, a.text),
                     Front(acts))

\* The groups of both stacks, oldest transaction first.
AllGroups(undone, redone) ==
    undone \o [k \in DOMAIN redone |-> redone[Len(redone) + 1 - k]]

\* C18: the mutations made by undo() and redo(), which happen while no
\* transaction is open, are recorded nowhere and, with cursors live, are
\* not intercepted and replayed: no action is appended to any group,
\* no group is added or dropped, no group is left open, no operation is
\* buffered, and the document changes by the group's own actions only.
C18_NothingRecorded ==
    [][(last'.op \in {"undo", "redo"} /\ last'.ret) =>
            /\ AllGroups(undo_stack', redo_stack')
                    = AllGroups(undo_stack, redo_stack)
            /\ current_action_group' = NoGroup
            /\ user_actions' = <<>>
            /\ last'.op = "undo" =>
                    doc' = Inverted(doc, Top(undo_stack).actions)
            /\ last'.op = "redo" =>
                    Applies(doc, Top(redo_stack).actions, doc')]_vars

\* A transaction made with two cursors was undone while they were live.
C18_Witness ==
    /\ last.op = "undo" /\ last.ret
    /\ Len(cursors) = 2 /\ handlers = 1
    /\ undo_stack = <<>> /\ Len(redo_stack) = 1
    /\ doc = txn.pre.doc
    /\ txn.fresh = "undone"

\* C19: undo() pops the most recent group, inverts its actions in reverse
\* recording order and pushes the same group onto the redo stack; redo()
\* pops the top of the redo stack, replays its actions in original order
\* and pushes it back onto the undo stack; so both keep the number of
\* groups, and undo() followed by redo() restores both stacks and the
\* document content.
C19_UndoRedoInverse ==
    /\ undo_stack # <<>> =>
            LET g == Top(undo_stack)
                u == undo(State).st
                r == redo(u).st
            IN /\ u.undo_stack = Front(undo_stack)
               /\ u.redo_stack = Append(redo_stack, g)
               /\ u.doc = Inverted(doc, g.actions)
               /\ r.undo_stack = undo_stack
               /\ r.redo_stack = redo_stack
               /\ r.doc = doc
    /\ redo_stack # <<>> =>
            LET g == Top(redo_stack)
                r == redo(State).st
            IN /\ r.redo_stack = Front(redo_stack)
               /\ r.undo_stack = Append(undo_stack, g)
               /\ Applies(doc, g.actions, r.doc)

\* A keystroke made with cursors was undone and redone: the group with its
\* primary and replayed actions is back on the undo stack.
C19_Witness ==
    /\ last.op = "redo" /\ last.ret
    /\ run.stage = "R"
    /\ cursors # <<>>
    /\ redo_stack = <<>> /\ Len(undo_stack) = 1
    /\ Len(undo_stack[1].actions) >= 2

\* C20: a transaction that ends without a recorded insert or delete (a
\* programmatic insertion of the empty text with every selection empty)
\* pushes nothing onto the undo stack, leaves the redo stack unchanged and
\* leaves no group open.
C20_EmptyTransaction ==
    [][(/\ last'.op = "insert_at_cursor"
        /\ doc' = doc
        /\ insert_mark = selection_bound
        /\ \A i \in DOMAIN cursors : cursors[i].s = cursors[i].e) =>
            /\ undo_stack' = undo_stack
            /\ redo_stack' = redo_stack
            /\ current_action_group' = NoGroup
            /\ ~in_user_action'
            /\ UNCHANGED <<undo_sensitive, redo_sensitive>>]_vars

\* The empty text was inserted at carets while the redo stack held a group.
C20_Witness ==
    /\ last.op = "insert_at_cursor" /\ txn.fresh = "stale"
    /\ insert_mark = selection_bound
    /\ cursors # <<>>
    /\ \A i \in DOMAIN cursors : cursors[i].s = cursors[i].e
    /\ last.nredo = 1 /\ Len(redo_stack) = 1
    /\ undo_stack = <<>>
    /\ current_action_group = NoGroup

\* The cursor objects of a list of cursors or of saved offsets.
Ids(cs) == [i \in DOMAIN cs |-> cs[i].id]

\* What undoing (undoing = TRUE) or redoing multi-cursor group g must
\* leave, new being the state after it and edited the state after the
\* group's document edits alone: the document edits made in full, the
\* primary selection at its saved offsets, the same cursor objects, each
\* one the group has saved at its saved offsets and every other one where
\* the document edits left it.
C21_Restored(g, undoing, edited, new) ==
    LET primary == IF undoing THEN g.primary_before ELSE g.primary_after
        saved == IF undoing THEN g.secondary_before ELSE g.secondary_after
    IN /\ IF undoing THEN new.doc = Inverted(doc, g.actions)
                     ELSE Applies(doc, g.actions, new.doc)
       /\ new.insert = get_iter_at_offset(new.doc, primary[1])
       /\ new.selection_bound = get_iter_at_offset(new.doc, primary[2])
       /\ Ids(new.cursors) = Ids(cursors)
       /\ \A i \in DOMAIN cursors :
            IF \E k \in DOMAIN saved : saved[k].id = cursors[i].id
            THEN \E k \in DOMAIN saved :
                    /\ saved[k].id = cursors[i].id
                    /\ new.cursors[i].s = get_iter_at_offset(new.doc, saved[k].s)
                    /\ new.cursors[i].e = get_iter_at_offset(new.doc, saved[k].e)
            ELSE /\ new.cursors[i].s = edited.cursors[i].s
                 /\ new.cursors[i].e = edited.cursors[i].e

\* C21: undo and redo of a multi-cursor group, also after cursors were
\* destroyed or added: the document edits are inverted or replayed in
\* full and the primary selection is restored, the saved offsets are
\* given only to snapshotted cursors that are still in the collection, a
\* destroyed cursor is not recreated, a cursor added after the snapshot is
\* not moved by the restore step, and True is returned.
C21_RestoreLiveCursors ==
    /\ (undo_stack # <<>> /\ Top(undo_stack).kind = "multi") =>
            /\ undo(State).ret
            /\ C21_Restored(Top(undo_stack), TRUE,
                    undo_actions(State, Top(undo_stack).actions,
                                 Len(Top(undo_stack).actions)),
                    undo(State).st)
    /\ (redo_stack # <<>> /\ Top(redo_stack).kind = "multi") =>
            /\ redo(State).ret
            /\ C21_Restored(Top(redo_stack), FALSE,
                    redo_actions(State, Top(redo_stack).actions, 1),
                    redo(State).st)

\* A multi-cursor group was undone after its cursor was destroyed and
\* another cursor was added.
C21_Witness ==
    /\ last.op = "undo" /\ last.ret
    /\ redo_stack # <<>> /\ Top(redo_stack).kind = "multi"
    /\ Len(cursors) = 1
    /\ \A k \in DOMAIN Top(redo_stack).secondary_before :
            Top(redo_stack).secondary_before[k].id # cursors[1].id

\* C22: every transaction that begins reaches its end and leaves the
\* guards reset: after each completed event (user transaction,
\* insert_at_cursor, undo, redo) there is no open action group, the undo
\* lock is off, the in-user-action and programmatic-modification flags
\* are false and no operation is buffered, so that no transaction begins
\* while a group is open.
C22_GuardsReset ==
    /\ current_action_group = NoGroup
    /\ ~undo_lock
    /\ ~in_user_action
    /\ ~is_modifying_programmatically
    /\ user_actions = <<>>

\* insert_at_cursor has recorded a transaction on the primary selection
\* and a cursor, and the guards are reset.
C22_Witness ==
    /\ last.op = "insert_at_cursor"
    /\ txn.fresh = "txn"
    /\ cursors # <<>>
    /\ handlers = 1
    /\ Top(undo_stack).kind = "multi"
    /\ C22_GuardsReset

\* C23: the undo and redo controls track the stacks after every completed
\* operation (recorded transaction, undo, redo, set_initial_content): the
\* undo control is enabled exactly when the undo stack is non-empty and
\* the redo control exactly when the redo stack is non-empty, and
\* set_initial_content leaves both stacks empty and records no undo group
\* for the loaded text.
C23_ControlsTrackStacks ==
    /\ undo_sensitive <=> undo_stack # <<>>
    /\ redo_sensitive <=> redo_stack # <<>>
    /\ last.op = "set_initial_content" =>
            /\ undo_stack = <<>>
            /\ redo_stack = <<>>
            /\ current_action_group = NoGroup

\* Content is loaded while a group waits on the redo stack.
C23_Witness ==
    /\ last.op = "set_initial_content"
    /\ last.nredo > 0
    /\ ~undo_sensitive /\ ~redo_sensitive

\* C24: remove_cursor(index), unmatch_cursor() and clear_cursors() always
\* clear the match highlights: after any of them returns, the collection
\* of match highlights is empty.
C24_RemovalClearsMatches ==
    last.op \in {"unmatch_cursor", "clear_cursors", "select"} => matches = <<>>

\* C25: unmatch_cursor is last in, first out: it removes exactly the most
\* recently added cursor and leaves the other cursors, their order and
\* the document unchanged, so that add_cursor or match_cursor followed by
\* unmatch_cursor restores the previous collection and the previous
\* Active / Inactive state; with no cursors it changes nothing.
C25_UnmatchLastInFirstOut ==
    [][/\ last'.op = "unmatch_cursor" =>
            /\ cursors' = IF cursors = <<>> THEN <<>> ELSE Front(cursors)
            /\ handlers' = IF cursors' = <<>> THEN 0 ELSE 1
            /\ UNCHANGED <<doc, insert_mark, selection_bound>>
       /\ (/\ last'.op \in {"ctrl_click", "match_cursor", "match_cursor_fuzzy"}
           /\ cursors' # cursors) =>
            /\ Front(cursors') = cursors
            /\ handlers = IF cursors = <<>> THEN 0 ELSE 1
            /\ (unmatch_cursor(State).cursors)' = cursors
      ]_vars

\* unmatch_cursor has removed the only cursor next to a primary selection.
C25_Witness ==
    /\ last.op = "unmatch_cursor" /\ last.ncur = 1
    /\ cursors = <<>> /\ handlers = 0
    /\ insert_mark # selection_bound

\* The literal occurrences of the selected text found by scanning the
\* document from its start, each scan resuming at the end of the previous
\* occurrence, without the primary selection itself.
C26_Scanned ==
    LET FirstFrom(from) ==
            CHOOSE o \in from..Len(doc) :
                /\ OccursAt(doc, SelText, o, FALSE)
                /\ \A j \in from..(o - 1) : ~OccursAt(doc, SelText, j, FALSE)
        scan[from \in 0..Len(doc)] ==
            IF \E o \in from..Len(doc) : OccursAt(doc, SelText, o, FALSE)
            THEN (IF FirstFrom(from) = SelStart THEN <<>>
                  ELSE <<[s |-> FirstFrom(from),
                          e |-> FirstFrom(from) + Len(SelText)]>>)
                 \o scan[FirstFrom(from) + Len(SelText)]
            ELSE <<>>
    IN scan[0]

\* C26: on the first match_cursor call of a sequence (no cursors) the
\* collection of match highlights becomes exactly the occurrences of the
\* selected text found by the left-to-right scan, without the primary
\* selection itself; on later calls (cursors exist) no highlight is added.
C26_FirstCallTagsAll ==
    [][(last'.op = "match_cursor" /\ SelText # <<>>) =>
            IF cursors = <<>> THEN matches' = C26_Scanned
            ELSE matches' = matches
      ]_vars

\* C27: match_cursor never adds a cursor whose range equals or overlaps
\* the range of the primary selection, whatever cursors were added before
\* (a Ctrl-click at or inside the primary selection included).
C27_MatchAvoidsPrimary ==
    (/\ last.op \in {"match_cursor", "match_cursor_fuzzy"}
     /\ Len(cursors) = last.ncur + 1) =>
        \/ Top(cursors).e <= SelStart
        \/ Top(cursors).s >= SelEnd

\* The lines covered by the primary selection's start and the cursors'
\* starts: the top line is the one with the smallest line number, the
\* bottom line the one with the largest.
C28_Lines ==
    {get_line(doc, SelStart)} \cup {get_line(doc, cursors[i].s) : i \in DOMAIN cursors}

C28_Top == CHOOSE l \in C28_Lines : \A m \in C28_Lines : l <= m

C28_Bottom == CHOOSE l \in C28_Lines : \A m \in C28_Lines : l >= m

\* The step went on to the target line: no cursor is removed, at most one
\* is added behind the others.
C28_Proceeds ==
    /\ Len(cursors') \in {Len(cursors), Len(cursors) + 1}
    /\ SubSeq(cursors', 1, Len(cursors)) = cursors

\* The step was handed to unmatch_cursor(): the last cursor is removed and
\* none is added.
C28_Unmatches == cursors' = IF cursors = <<>> THEN <<>> ELSE Front(cursors)

\* C28 as stated: column_select proceeds to add a cursor only if extending
\* downward finds the span's bottom line on the primary's line, or
\* extending upward finds the span's top line there; in every other case
\* it delegates to unmatch_cursor() and adds nothing.
C28_Original ==
    [][/\ last'.op = "column_select_down" =>
            IF C28_Bottom = get_line(doc, SelStart)
            THEN C28_Proceeds ELSE C28_Unmatches
       /\ last'.op = "column_select_up" =>
            IF C28_Top = get_line(doc, SelStart)
            THEN C28_Proceeds ELSE C28_Unmatches
      ]_vars

\* C28, amended: column_select proceeds to add a cursor only if the
\* primary's line is the edge of the span opposite to the direction:
\* extending downward is valid only if the span's top line is the
\* primary's line, extending upward only if the span's bottom line is;
\* in every other case it delegates to unmatch_cursor() and adds nothing.
C28_DirectionRule ==
    [][/\ last'.op = "column_select_down" =>
            IF C28_Top = get_line(doc, SelStart)
            THEN C28_Proceeds ELSE C28_Unmatches
       /\ last'.op = "column_select_up" =>
            IF C28_Bottom = get_line(doc, SelStart)
            THEN C28_Proceeds ELSE C28_Unmatches
      ]_vars

\* column_select(+1) has removed the cursor that stood above the primary
\* caret's line.
C28_Witness ==
    /\ last.op = "column_select_down" /\ last.ncur = 1
    /\ cursors = <<>>
    /\ get_line(doc, SelStart) > 0

\* The number of characters of a line, its line end not counted.
C29_LineLength(l) ==
    Cardinality({o \in 1..Len(doc) : get_line(doc, o - 1) = l /\ doc[o] # NL})

\* The offset at column Min(col, length of the line) of line l.
C29_Place(l, col) == LineStart(doc, l) + Min(col, C29_LineLength(l))

\* The line column_select(line_delta) aims at: one step beyond the edge of
\* the span in the direction of the step.
C29_TargetLine(down) == IF down THEN C28_Bottom + 1 ELSE C28_Top - 1

\* What column_select may do once the direction rule lets it proceed.
C29_Geometry(down) ==
    LET target == C29_TargetLine(down)
        end_line == target + (get_line(doc, SelEnd) - get_line(doc, SelStart))
    IN IF target \in 0..(line_count(doc) - 1)
       THEN Len(cursors') = Len(cursors) + 1 =>
                /\ Top(cursors').s =
                        C29_Place(target, get_line_offset(doc, SelStart))
                /\ end_line \in 0..(line_count(doc) - 1) =>
                        Top(cursors').e =
                            C29_Place(end_line, get_line_offset(doc, SelEnd))
       ELSE UNCHANGED <<cursors, matches, handlers, doc, insert_mark,
                        selection_bound>>

\* C29: when column_select adds a cursor, the cursor's start lies on the
\* line edge_line + line_delta at column min(primary start column, length
\* of that line), its end is placed likewise relative to the primary end,
\* and no other line receives the cursor; when edge_line + line_delta is
\* outside the buffer no cursor is added and the state is unchanged.
C29_TargetGeometry ==
    [][/\ (/\ last'.op = "column_select_down"
           /\ C28_Top = get_line(doc, SelStart)) => C29_Geometry(TRUE)
       /\ (/\ last'.op = "column_select_up"
           /\ C28_Bottom = get_line(doc, SelStart)) => C29_Geometry(FALSE)
      ]_vars

\* A cursor's (start, end) after one step of count characters: extending
\* moves the start (leftward) or the end (rightward); without extending a
\* selection collapses to its start (leftward) or end (rightward) and a
\* caret moves by the step, within the document.
C30_Stepped(c, count, extend) ==
    LET to(o) == IF count < 0 THEN Max(0, o + count) ELSE Min(Len(doc), o + count)
    IN IF extend
       THEN IF count < 0 THEN <<to(c.s), c.e>> ELSE <<c.s, to(c.e)>>
       ELSE IF c.s # c.e
       THEN IF count < 0 THEN <<c.s, c.s>> ELSE <<c.e, c.e>>
       ELSE <<to(c.s), to(c.s)>>

\* C30: a movement of the primary caret to the buffer's start or end or by
\* a page removes every cursor and returns the manager to Inactive (the
\* handlers are unhooked); every other movement keeps the number of
\* cursors and applies the step to each of them; any movement leaves the
\* collection of match highlights empty.
C30_MovementBroadcast ==
    [][/\ last'.op \in {"move_cursor", "move_cursor_ends"} => matches' = <<>>
       /\ last'.op = "move_cursor_ends" => cursors' = <<>> /\ handlers' = 0
       /\ last'.op = "move_cursor" =>
            /\ Len(cursors') = Len(cursors)
            /\ handlers' = handlers
            /\ \E count \in {-1, 1}, extend \in BOOLEAN :
                    \A i \in DOMAIN cursors :
                        <<cursors'[i].s, cursors'[i].e>> =
                            C30_Stepped(cursors[i], count, extend)
      ]_vars

\* A movement to a buffer end or by a page has removed two cursors and
\* the match highlights.
C30_Witness ==
    /\ last.op = "move_cursor_ends" /\ last.ncur = 2
    /\ cursors = <<>> /\ handlers = 0 /\ matches = <<>>

\* Cursor i after the movement is broadcast without extending.
C31_Moved(i, step_size, count) ==
    mc_move_cursor(State, step_size, count, FALSE).cursors[i]

\* The end a cursor's selection collapses to.
C31_CollapsesTo(c, count) == IF count < 0 THEN c.s ELSE c.e

\* C31 as stated: a non-extending Cursor.move on a cursor with a non-empty
\* selection collapses the cursor to its start (negative count) or its
\* end (positive count) and then applies the step from that position, for
\* every step granularity; the result is a zero-width cursor at the
\* stepped position.
C31_Original ==
    \A i \in DOMAIN cursors, step_size \in CursorSteps, count \in {-1, 1} :
        cursors[i].s # cursors[i].e =>
            LET stepped == move_iter(doc, cursors[i],
                                     C31_CollapsesTo(cursors[i], count),
                                     step_size, count).pos
            IN /\ C31_Moved(i, step_size, count).s = stepped
               /\ C31_Moved(i, step_size, count).e = stepped

\* C31, amended: a non-extending Cursor.move on a cursor with a non-empty
\* selection only collapses the cursor to its start (negative count) or
\* its end (positive count), for every step granularity: the result is a
\* zero-width cursor at that end and no step is applied; the step is
\* applied to a cursor that is zero-width already.
C31_CollapseOnly ==
    \A i \in DOMAIN cursors, step_size \in CursorSteps, count \in {-1, 1} :
        IF cursors[i].s # cursors[i].e
        THEN /\ C31_Moved(i, step_size, count).s = C31_CollapsesTo(cursors[i], count)
             /\ C31_Moved(i, step_size, count).e = C31_CollapsesTo(cursors[i], count)
        ELSE /\ C31_Moved(i, step_size, count).s = C31_Moved(i, step_size, count).e
             /\ C31_Moved(i, step_size, count).s =
                    move_iter(doc, cursors[i], cursors[i].s, step_size, count).pos

\* A movement has left a cursor with a selection that spans a line end.
C31_Witness ==
    /\ last.op \in {"move_cursor", "move_cursor_lines"}
    /\ cursors # <<>>
    /\ cursors[1].s < cursors[1].e
    /\ get_line(doc, cursors[1].s) < get_line(doc, cursors[1].e)

\* The state after Shift-Left (count -1) or Shift-Right (count 1): the
\* movement is broadcast to the cursors, then the view moves the primary.
C32_Extended(st, count) ==
    view_move_cursor(mc_move_cursor(st, "VISUAL_POSITIONS", count, TRUE),
                     "VISUAL_POSITIONS", count, TRUE)

\* The length of the range between two offsets.
C32_Length(a, b) == IF a <= b THEN b - a ELSE a - b

\* C32: extending movement grows the active end of a cursor's selection
\* as it does for the primary caret: from a zero-width cursor, extending
\* right by one character and then left by one character returns the
\* cursor to its zero-width (start, end), and after a sequence of
\* extending character moves each cursor's selection is as long as the
\* primary selection (away from the document's boundaries).
C32_ExtendLikePrimary ==
    /\ \A i \in DOMAIN cursors :
            (/\ cursors[i].s = cursors[i].e
             /\ cursors[i].s \in 1..(Len(doc) - 1)) =>
                LET back == C32_Extended(C32_Extended(State, 1), -1).cursors[i]
                IN back.s = cursors[i].s /\ back.e = cursors[i].e
    /\ (/\ insert_mark = selection_bound
        /\ insert_mark \in 2..(Len(doc) - 2)
        /\ \A i \in DOMAIN cursors :
                /\ cursors[i].s = cursors[i].e
                /\ cursors[i].s \in 2..(Len(doc) - 2)) =>
            \A first \in {-1, 1}, second \in {-1, 1} :
                LET after == C32_Extended(C32_Extended(State, first), second)
                IN \A i \in DOMAIN cursors :
                        C32_Length(after.cursors[i].s, after.cursors[i].e) =
                            C32_Length(after.insert, after.selection_bound)

\* The cursors after a movement is broadcast without extending.
C33_Moved(st, step_size, count) == mc_move_cursor(st, step_size, count, FALSE)

\* The offset at column Min(col, length of the line) of a line.
C33_Column(line, col) ==
    LineStart(doc, line) + Min(col, LineEnd(doc, line) - LineStart(doc, line))

\* C33: during a run of consecutive display-line moves a cursor keeps the
\* column it had before the first move of the run, so that moving
\* through a shorter line and on to a line at least as long places it at
\* the original column; a horizontal, word or line-end move ends the run,
\* and the next vertical move starts from the column the cursor then has.
C33_ColumnRemembered ==
    \A i \in DOMAIN cursors, count \in {-1, 1} :
        LET c == cursors[i]
            line == get_line(doc, c.s)
            col == get_line_offset(doc, c.s)
        IN c.s = c.e =>
            /\ (/\ c.line_offset = -1
                /\ line + 2 * count \in 0..(line_count(doc) - 1)) =>
                    LET twice == C33_Moved(C33_Moved(State, "DISPLAY_LINES", count),
                                           "DISPLAY_LINES", count).cursors[i]
                    IN /\ twice.s = C33_Column(line + 2 * count, col)
                       /\ twice.e = twice.s
            /\ \A step_size \in CursorSteps \ {"DISPLAY_LINES"}, by \in {-1, 1} :
                    LET moved == C33_Moved(State, step_size, by)
                        at == moved.cursors[i].s
                        next == C33_Moved(moved, "DISPLAY_LINES", count).cursors[i]
                    IN get_line(doc, at) + count \in 0..(line_count(doc) - 1) =>
                            next.s = C33_Column(get_line(doc, at) + count,
                                                get_line_offset(doc, at))

\* Before the transaction neither the primary nor any cursor had a
\* selection, or each of them had one.
C36_Case ==
    /\ last.op = "type"
    /\ txn.fresh = "txn" /\ txn.op = "type"
    /\ txn.pre.cursors # <<>>
    /\ \/ /\ txn.pre.insert = txn.pre.selection_bound
          /\ \A i \in DOMAIN txn.pre.cursors :
                txn.pre.cursors[i].s = txn.pre.cursors[i].e
       \/ /\ txn.pre.insert # txn.pre.selection_bound
          /\ \A i \in DOMAIN txn.pre.cursors :
                txn.pre.cursors[i].s # txn.pre.cursors[i].e

\* C36: replayed insertions are not absorbed into the cursor's own range:
\* after a typing transaction in which neither the primary nor any cursor
\* has a selection, or each of them has one, every cursor is zero-width
\* and sits immediately after its own copy of the typed text, for every
\* placement of the cursors, a cursor at the primary caret's offset
\* included.
C36_NotAbsorbed ==
    C36_Case =>
        \A i \in DOMAIN cursors :
            /\ cursors[i].s = cursors[i].e
            /\ cursors[i].s >= 1
            /\ doc[cursors[i].s] \in TypedChars

\* The number of characters the primary deletion of a Backspace removes
\* in view v: the selection, else the character before the caret.
C37_PrimaryRemoved(v) ==
    IF v.insert # v.selection_bound
    THEN C32_Length(v.insert, v.selection_bound)
    ELSE Min(1, v.insert)

\* The number of characters of [start + start_delta, end + end_delta],
\* clamped to the document, for cursor i of view v.
C37_Local(v, i) ==
    LET start_delta == IF v.insert # v.selection_bound THEN 0 ELSE -1
    IN Max(0, Min(Len(v.doc), v.cursors[i].e)
                - Max(0, v.cursors[i].s + start_delta))

RECURSIVE C37_LocalSum(_, _)
C37_LocalSum(v, k) ==
    IF k = 0 THEN 0 ELSE C37_Local(v, k) + C37_LocalSum(v, k - 1)

\* C37: a replayed deletion stays local to its cursor: when a Backspace
\* removes n characters at the primary, the replay removes at each cursor
\* only characters inside [cursor.start + start_delta, cursor.end +
\* end_delta] clamped to the document, so at most n characters plus the
\* cursor's own selection; a Backspace replayed at a zero-width cursor at
\* offset 0 deletes nothing there.
C37_DeletionLocal ==
    (/\ last.op = "backspace"
     /\ txn.fresh = "txn" /\ txn.op = "backspace"
     /\ \A i \in DOMAIN txn.pre.cursors :
            txn.pre.cursors[i].s <= txn.pre.cursors[i].e) =>
        Len(txn.pre.doc) - Len(doc) <=
            C37_PrimaryRemoved(txn.pre)
                + C37_LocalSum(txn.pre, Len(txn.pre.cursors))

\* The ranges of view v with the text each one is to receive at a paste
\* of text t: the primary selection receives t, cursor i the text it has
\* captured, or t when it has captured none.
C34_Targets(v, t) ==
    {[r |-> order_iters(v.insert, v.selection_bound), text |-> t]}
        \cup {[r |-> order_iters(v.cursors[i].s, v.cursors[i].e),
               text |-> IF cursors[i].clipboard # <<>>
                        THEN cursors[i].clipboard ELSE t] :
                i \in DOMAIN v.cursors}

\* Document d with the range of every target replaced by the target's
\* text, the range with the largest start first.
RECURSIVE C34_Replaced(_, _)
C34_Replaced(d, targets) ==
    IF targets = {} THEN d
    ELSE LET x == CHOOSE x \in targets : \A y \in targets : y.r[1] <= x.r[1]
         IN C34_Replaced(TextInsert(TextDelete(d, x.r[1], x.r[2]), x.r[1], x.text),
                         targets \ {x})

\* The state is the one right after a recorded paste of the text captured
\* from the primary selection, made while the primary and every cursor
\* held a selection (as after a copy) or none of them did (as after a
\* cut); their ranges started at different offsets and did not overlap.
C34_Case ==
    /\ last.op = "paste"
    /\ txn.fresh = "txn" /\ txn.op = "paste"
    /\ txn.pre.cursors # <<>>
    /\ clipboard \in PastedTexts \ {<<>>}
    /\ \/ /\ txn.pre.insert = txn.pre.selection_bound
          /\ \A i \in DOMAIN txn.pre.cursors :
                txn.pre.cursors[i].s = txn.pre.cursors[i].e
       \/ /\ txn.pre.insert # txn.pre.selection_bound
          /\ \A i \in DOMAIN txn.pre.cursors :
                txn.pre.cursors[i].s # txn.pre.cursors[i].e
    /\ \A r, q \in Ranges(txn.pre) : r[1] < q[1] => r[2] <= q[1]
    /\ Cardinality({r[1] : r \in Ranges(txn.pre)}) = Len(txn.pre.cursors) + 1

\* C34: after a copy or cut performed with the primary selection and k
\* cursors, a paste whose text equals the text captured from the primary
\* selection inserts at each cursor that cursor's own captured text while
\* the primary receives the pasted text; a cursor whose captured text is
\* empty receives the pasted text.
C34_PasteOwnText ==
    C34_Case => doc = C34_Replaced(txn.pre.doc, C34_Targets(txn.pre, clipboard))

\* The ranges of view v, each one to receive the typed text t.
C35_Targets(v, t) == {[r |-> x, text |-> t] : x \in Ranges(v)}

\* The state is the one right after a recorded insertion typed at the
\* keyboard, made while the primary and every cursor held a selection or
\* none of them did, their ranges apart from each other.
C35_Case ==
    /\ last.op = "type"
    /\ txn.fresh = "txn" /\ txn.op = "type"
    /\ txn.pre.cursors # <<>>
    /\ \/ /\ txn.pre.insert = txn.pre.selection_bound
          /\ \A i \in DOMAIN txn.pre.cursors :
                txn.pre.cursors[i].s = txn.pre.cursors[i].e
       \/ /\ txn.pre.insert # txn.pre.selection_bound
          /\ \A i \in DOMAIN txn.pre.cursors :
                txn.pre.cursors[i].s # txn.pre.cursors[i].e
    /\ \A r, q \in Ranges(txn.pre) : r[1] < q[1] => r[2] < q[1]
    /\ Cardinality({r[1] : r \in Ranges(txn.pre)}) = Len(txn.pre.cursors) + 1

\* C35: an insertion typed at the keyboard is replayed with the literal
\* typed text at every cursor, even when the typed text equals the last
\* captured clipboard text and an earlier paste happened while no cursors
\* existed or inserted nothing.
C35_TypedLiterally ==
    C35_Case =>
        \E c \in TypedChars :
            doc = C34_Replaced(txn.pre.doc, C35_Targets(txn.pre, <<c>>))

\* C38: a successful format_content leaves the formatter's output for the
\* previous content as the document, whether or not cursors exist, pushes
\* exactly one group onto the undo stack, and one undo() restores the
\* previous content; when the formatter is missing or fails, the document
\* and both stacks are unchanged.
C38_FormatReplaces ==
    [][last'.op = "format_content" =>
        IF last'.ret
        THEN /\ doc' = shfmt(doc)
             /\ Len(undo_stack') = Len(undo_stack) + 1
             /\ (undo(State).st.doc)' = doc
        ELSE UNCHANGED <<doc, undo_stack, redo_stack>>]_vars

====
